---- MODULE Spec2Model ----
(***************************************************************************)
(* A model of the expression parser (parser/ExpressionParser.cpp) and of   *)
(* the symbolic engine (cas/SymbolicEngine.cpp).                           *)
(*                                                                         *)
(* Text is a sequence of one-character strings; C++ offsets are 0-based,   *)
(* so the character at offset p of input is input[p + 1].                  *)
(* A double is modelled as an exact normalised rational [n, d] (d > 0);    *)
(* a double whose value the model does not track (an irrational function   *)
(* value, a magnitude beyond MaxMagnitude, a non-finite value) is the      *)
(* record Untracked, and every statement about values is made only where   *)
(* the values involved are tracked.                                        *)
(***************************************************************************)
EXTENDS Integers, Sequences, FiniteSets, TLC

VARIABLES
    text,             \* the text handed to the next parse call
    pc,               \* the step of the scenario that ran last
    ast,              \* ExpressionParser::ast (Null when reset)
    lastError,        \* ExpressionParser::lastError
    hasParsingError,  \* ExpressionParser::hasParsingError
    parseReturn,      \* what the last ExpressionParser::parse returned
    hadTree,          \* ast held a tree when that call began
    escaped,          \* an exception left ExpressionParser::parse
    currentToken,     \* Parser::currentToken when Parser::parse ended
    exprDone,         \* parseExpression returned a tree in that call
    bindings,         \* the variables map of the last evaluate call
    evalResult,       \* outcome of the last ExpressionParser::evaluate
    printed,          \* result of the last ExpressionParser::toString
    reparsed,         \* outcome of parsing `printed` with a fresh parser
    expression,       \* SymbolicEngine::expression (Null when empty)
    derivative,       \* outcome of the last SymbolicEngine::differentiate
    simplified,       \* outcome of the last simplify()
    shown,            \* toString() of the simplified tree
    integral,         \* outcome of the last SymbolicEngine::integrate
    solution,         \* outcome of the last SymbolicEngine::solve
    factors,          \* outcome of the last SymbolicEngine::factor
    again,            \* outcome of simplify() on the simplified tree
    lexer             \* a Lexer on `text`: its position and the tokens it returned

vars == <<text, pc, ast, lastError, hasParsingError, parseReturn, hadTree, escaped,
          currentToken, exprDone, bindings, evalResult, printed, reparsed,
          expression, derivative, simplified, shown, integral, solution, factors, again,
          lexer>>

(***************************************************************************)
(* Bounds of the model.                                                    *)
(***************************************************************************)
MaxMagnitude == 1000000000

(***************************************************************************)
(* Characters (<cctype> in the "C" locale).                                *)
(***************************************************************************)
DigitChars == <<"0", "1", "2", "3", "4", "5", "6", "7", "8", "9">>

Digits == {DigitChars[i] : i \in 1..Len(DigitChars)}

Letters ==
    {"a", "b", "c", "d", "e", "f", "g", "h", "i", "j", "k", "l", "m",
     "n", "o", "p", "q", "r", "s", "t", "u", "v", "w", "x", "y", "z",
     "A", "B", "C", "D", "E", "F", "G", "H", "I", "J", "K", "L", "M",
     "N", "O", "P", "Q", "R", "S", "T", "U", "V", "W", "X", "Y", "Z"}

isdigit(c) == c \in Digits

isalpha(c) == c \in Letters

isalnum(c) == isalpha(c) \/ isdigit(c)

isspace(c) == c \in {" ", "\t", "\n", "\r", "\f"}

DigitVal(c) == (CHOOSE i \in 1..Len(DigitChars) : DigitChars[i] = c) - 1

substr(s, start, count) == SubSeq(s, start + 1, start + count)

(***************************************************************************)
(* Doubles.  A double is held as the rational [n, d] in lowest terms when  *)
(* the model tracks it: a literal is the rational its text denotes (stod   *)
(* rounds it to the nearest double, one double per rational), and          *)
(* arithmetic is tracked where the double result is exact, that is on      *)
(* dyadic rationals of bounded size.  Anything else is Untracked.          *)
(***************************************************************************)
Abs(i) == IF i < 0 THEN -i ELSE i

RECURSIVE GCD(_, _)
GCD(a, b) == IF b = 0 THEN a ELSE GCD(b, a % b)

Untracked == [n |-> 0, d |-> 0]

IsTracked(v) == v.d # 0

\* a product of two integers that stays within MaxMagnitude
Fits(a, b) == a = 0 \/ b = 0 \/ Abs(a) <= MaxMagnitude \div Abs(b)

\* the rational n/d (d # 0, both within 2 * MaxMagnitude), normalised
Q(n, d) ==
    LET g == GCD(Abs(n), Abs(d))
        s == IF d < 0 THEN -1 ELSE 1
        nn == s * (n \div g)
        dd == s * (d \div g)
    IN  IF Abs(nn) > MaxMagnitude \/ dd > MaxMagnitude THEN Untracked
        ELSE [n |-> nn, d |-> dd]

Num(i) == [n |-> i, d |-> 1]

RECURSIVE IsPowerOfTwo(_)
IsPowerOfTwo(d) == d = 1 \/ (d > 1 /\ d % 2 = 0 /\ IsPowerOfTwo(d \div 2))

\* the double holds exactly this rational
Exact(v) == IsTracked(v) /\ IsPowerOfTwo(v.d)

\* the result of an operation, tracked when no rounding took place
Unrounded(v) == IF Exact(v) THEN v ELSE Untracked

QAdd(a, b) ==
    IF ~Exact(a) \/ ~Exact(b) THEN Untracked
    ELSE IF ~Fits(a.n, b.d) \/ ~Fits(b.n, a.d) \/ ~Fits(a.d, b.d) THEN Untracked
    ELSE Unrounded(Q(a.n * b.d + b.n * a.d, a.d * b.d))

QNeg(a) == IF IsTracked(a) THEN [n |-> -a.n, d |-> a.d] ELSE Untracked

QSub(a, b) == QAdd(a, QNeg(b))

QMul(a, b) ==
    IF ~Exact(a) \/ ~Exact(b) THEN Untracked
    ELSE IF ~Fits(a.n, b.n) \/ ~Fits(a.d, b.d) THEN Untracked
    ELSE Unrounded(Q(a.n * b.n, a.d * b.d))

\* a / b for b # 0
QDiv(a, b) ==
    IF ~Exact(a) \/ ~Exact(b) \/ b.n = 0 THEN Untracked
    ELSE IF ~Fits(a.n, b.d) \/ ~Fits(a.d, b.n) THEN Untracked
    ELSE Unrounded(Q(a.n * b.d, a.d * b.n))

QSquare(a) == QMul(a, a)

\* a to the power e >= 0, by repeated squaring
RECURSIVE QPowNat(_, _)
QPowNat(a, e) ==
    IF e = 0 THEN Num(1)
    ELSE IF ~Exact(a) THEN Untracked
    ELSE IF e % 2 = 0 THEN QSquare(QPowNat(a, e \div 2))
    ELSE QMul(a, QPowNat(a, e - 1))

\* std::pow(a, b): exact for an integer exponent on a tracked base
QPow(a, b) ==
    IF ~Exact(a) \/ ~Exact(b) THEN Untracked
    ELSE IF b.n = 0 THEN Num(1)
    ELSE IF a = Num(1) THEN Num(1)
    ELSE IF a.n = 0 THEN (IF b.n > 0 THEN Num(0) ELSE Untracked)
    ELSE IF b.d # 1 THEN Untracked
    ELSE IF a = Num(-1) THEN (IF b.n % 2 = 0 THEN Num(1) ELSE Num(-1))
    ELSE IF Abs(b.n) > 31 THEN Untracked
    ELSE IF b.n > 0 THEN QPowNat(a, b.n)
    ELSE QPowNat(QDiv(Num(1), a), -b.n)

QIsZero(a) == IsTracked(a) /\ a.n = 0

QLeqZero(a) == IsTracked(a) /\ a.n <= 0

QLtZero(a) == IsTracked(a) /\ a.n < 0

\* the integer square root of i >= 0 when i is a perfect square of a small
\* root, else -1 (the caller then leaves the value untracked)
ISqrt(i) ==
    IF \E r \in 0..1000 : r * r = i
    THEN CHOOSE r \in 0..1000 : r * r = i
    ELSE -1

RECURSIVE Pow10(_)
Pow10(k) == IF k = 0 THEN 1 ELSE 10 * Pow10(k - 1)

(***************************************************************************)
(* std::stod on the text of a Number token (Parser::parsePrimary).         *)
(***************************************************************************)
\* first offset >= p of s that holds no digit
RECURSIVE DigitsEnd(_, _)
DigitsEnd(s, p) ==
    IF p < Len(s) /\ isdigit(s[p + 1]) THEN DigitsEnd(s, p + 1) ELSE p

\* the value of a digit sequence, or -1 when it exceeds MaxMagnitude
RECURSIVE DigitsValue(_)
DigitsValue(ds) ==
    IF ds = <<>> THEN 0
    ELSE LET hi == DigitsValue(SubSeq(ds, 1, Len(ds) - 1))
             lo == DigitVal(ds[Len(ds)])
         IN  IF hi < 0 \/ hi > (MaxMagnitude - lo) \div 10 THEN -1
             ELSE 10 * hi + lo

RECURSIVE StripLeadingZeros(_)
StripLeadingZeros(ds) ==
    IF ds # <<>> /\ ds[1] = "0" THEN StripLeadingZeros(Tail(ds)) ELSE ds

\* [ok, val, class]: ok is FALSE when std::stod throws (invalid_argument for
\* a text without a digit, out_of_range for a value no double holds)
stod(s) ==
    LET intEnd == DigitsEnd(s, 0)
        hasDot == intEnd < Len(s) /\ s[intEnd + 1] = "."
        fracEnd == IF hasDot THEN DigitsEnd(s, intEnd + 1) ELSE intEnd
        fracLen == IF hasDot THEN fracEnd - (intEnd + 1) ELSE 0
        mant == substr(s, 0, intEnd) \o
                (IF hasDot THEN substr(s, intEnd + 1, fracLen) ELSE <<>>)
        hasE == fracEnd < Len(s) /\ s[fracEnd + 1] \in {"e", "E"}
        p1 == fracEnd + 1
        signed == hasE /\ p1 < Len(s) /\ s[p1 + 1] \in {"+", "-"}
        p2 == IF signed THEN p1 + 1 ELSE p1
        eEnd == IF hasE THEN DigitsEnd(s, p2) ELSE p2
        hasExp == hasE /\ eEnd > p2
        eAbs == IF hasExp THEN DigitsValue(substr(s, p2, eEnd - p2)) ELSE 0
        eNeg == signed /\ s[p1 + 1] = "-"
        sig == StripLeadingZeros(mant)
        m == DigitsValue(sig)
        \* decimal exponent of the leading significant digit
        lead == (IF eNeg THEN -eAbs ELSE eAbs) - fracLen + Len(sig) - 1
        shift == (IF eNeg THEN -eAbs ELSE eAbs) - fracLen
    IN  IF mant = <<>>
        THEN [ok |-> FALSE, val |-> Untracked, class |-> "std::invalid_argument"]
        ELSE IF sig = <<>> THEN [ok |-> TRUE, val |-> Num(0), class |-> ""]
        ELSE IF eAbs < 0 \/ lead > 308 \/ lead < -324
             THEN [ok |-> FALSE, val |-> Untracked, class |-> "std::out_of_range"]
        ELSE IF m < 0 \/ Abs(shift) > 9
             THEN [ok |-> TRUE, val |-> Untracked, class |-> ""]
        ELSE IF shift >= 0
             THEN [ok |-> TRUE,
                   val |-> IF Fits(m, Pow10(shift)) THEN Q(m * Pow10(shift), 1)
                           ELSE Untracked,
                   class |-> ""]
        ELSE [ok |-> TRUE, val |-> Q(m, Pow10(-shift)), class |-> ""]

(***************************************************************************)
(* operator<<(ostream, double) with the default precision of 6 significant *)
(* digits (NumberNode::toString, SymbolicNumber::toString).                *)
(***************************************************************************)
RECURSIVE IntDigits(_)
IntDigits(i) ==
    IF i < 10 THEN <<DigitChars[i + 1]>>
    ELSE IntDigits(i \div 10) \o <<DigitChars[(i % 10) + 1]>>

RECURSIVE StripTrailingZeros(_)
StripTrailingZeros(ds) ==
    IF ds # <<>> /\ ds[Len(ds)] = "0"
    THEN StripTrailingZeros(SubSeq(ds, 1, Len(ds) - 1)) ELSE ds

RECURSIVE Zeros(_)
Zeros(k) == IF k <= 0 THEN <<>> ELSE <<"0">> \o Zeros(k - 1)

\* floor(log10(n / d)) for n, d > 0
RECURSIVE DecExpUp(_, _)
DecExpUp(n, d) == IF n \div 10 >= d THEN 1 + DecExpUp(n \div 10, d) ELSE 0

RECURSIVE DecExpDown(_, _)
DecExpDown(n, d) == IF n >= d THEN 0 ELSE DecExpDown(n, (d + 9) \div 10) - 1

DecExp(n, d) == IF n >= d THEN DecExpUp(n, d) ELSE DecExpDown(n, d)

\* round-half-even of num / den
RoundDiv(num, den) ==
    LET q == num \div den
        r == num % den
    IN  IF 2 * r > den \/ (2 * r = den /\ q % 2 = 1) THEN q + 1 ELSE q

\* n/d times 10^s for s >= 0 as [ok, n, d], cancelling as it goes; ok is
\* FALSE when the numerator leaves MaxMagnitude
RECURSIVE ScaleUp(_, _, _)
ScaleUp(n, d, s) ==
    IF s = 0 THEN [ok |-> TRUE, n |-> n, d |-> d]
    ELSE LET g == GCD(10, d)
         IN  IF ~Fits(n, 10 \div g) THEN [ok |-> FALSE, n |-> 0, d |-> 1]
             ELSE ScaleUp(n * (10 \div g), d \div g, s - 1)

\* [ok, m, x]: the six significant digits m (100000..999999) and the decimal
\* exponent x of n/d > 0; ok is FALSE when the digits are not tracked
SixDigits(n, d) ==
    LET x == DecExp(n, d)
        s == 5 - x
        up == IF s > 0 THEN ScaleUp(n, d, s) ELSE [ok |-> TRUE, n |-> n, d |-> d]
        dn == IF s < 0 THEN Pow10(-s) ELSE 1
        fits == up.ok /\ Fits(up.d, dn)
        m == IF fits THEN RoundDiv(up.n, up.d * dn) ELSE 0
        tie == fits /\ 2 * (up.n % (up.d * dn)) = up.d * dn
    IN  IF ~fits \/ (tie /\ ~IsPowerOfTwo(d)) THEN [ok |-> FALSE, m |-> 0, x |-> 0]
        ELSE IF m = 1000000 THEN [ok |-> TRUE, m |-> 100000, x |-> x + 1]
        ELSE [ok |-> TRUE, m |-> m, x |-> x]

FormatPositive(n, d) ==
    LET sd == SixDigits(n, d)
        ds == IntDigits(sd.m)
        x == sd.x
        rest == StripTrailingZeros(Tail(ds))
        ex == IntDigits(Abs(x))
    IN  IF ~sd.ok THEN <<"?">>
        ELSE IF x < -4 \/ x >= 6
             THEN <<ds[1]>> \o (IF rest = <<>> THEN <<>> ELSE <<".">> \o rest)
                  \o <<"e", IF x < 0 THEN "-" ELSE "+">>
                  \o (IF Len(ex) < 2 THEN <<"0">> ELSE <<>>) \o ex
        ELSE IF x >= 0
             THEN LET frac == StripTrailingZeros(SubSeq(ds, x + 2, 6))
                  IN  SubSeq(ds, 1, x + 1)
                      \o (IF frac = <<>> THEN <<>> ELSE <<".">> \o frac)
        ELSE <<"0", ".">> \o Zeros(-x - 1) \o StripTrailingZeros(ds)

FormatDouble(v) ==
    IF ~IsTracked(v) THEN <<"?">>
    ELSE IF v.n = 0 THEN <<"0">>
    ELSE IF v.n < 0 THEN <<"-">> \o FormatPositive(-v.n, v.d)
    ELSE FormatPositive(v.n, v.d)

\* a printed double whose digits the model tracks
IsTrackedText(s) == \A i \in 1..Len(s) : s[i] # "?"

(***************************************************************************)
(* Tokens and the lexer (Lexer in ExpressionParser.cpp).                   *)
(***************************************************************************)
Token(type, value, position) ==
    [type |-> type, value |-> value, position |-> position]

RECURSIVE skipWhitespace(_, _)
skipWhitespace(input, position) ==
    IF position < Len(input) /\ isspace(input[position + 1])
    THEN skipWhitespace(input, position + 1)
    ELSE position

\* the position at which the while loop of readNumber stops
RECURSIVE readNumberEnd(_, _, _)
readNumberEnd(input, position, hasDecimal) ==
    IF position >= Len(input) THEN position
    ELSE LET c == input[position + 1]
         IN  IF isdigit(c) THEN readNumberEnd(input, position + 1, hasDecimal)
             ELSE IF c = "." /\ ~hasDecimal
                  THEN readNumberEnd(input, position + 1, TRUE)
             ELSE IF c = "e" \/ c = "E"
                  THEN LET p1 == position + 1
                           p2 == IF p1 < Len(input) /\ input[p1 + 1] \in {"+", "-"}
                                 THEN p1 + 1 ELSE p1
                       IN  DigitsEnd(input, p2)
             ELSE position

\* a readNumber that steps over the place of the exponent's sign without
\* looking whether the input goes that far
readNumberOverruns(input, position) ==
    LET end == readNumberEnd(input, position, FALSE)
        past == IF end = Len(input) /\ input[end] \in {"e", "E"} THEN end + 1 ELSE end
    IN  [token |-> Token("NUMBER", substr(input, position, end - position), position),
         position |-> past]

\* [token, position]: the token read and the lexer's position after it
readNumber(input, position) ==
    LET end == readNumberEnd(input, position, FALSE)
    IN  [token |-> Token("NUMBER", substr(input, position, end - position), position),
         position |-> end]

FunctionNames ==
    {<<"s", "i", "n">>, <<"c", "o", "s">>, <<"t", "a", "n">>, <<"l", "o", "g">>,
     <<"l", "n">>, <<"s", "q", "r", "t">>, <<"a", "b", "s">>}

isFunction(identifier) == identifier \in FunctionNames

RECURSIVE readIdentifierEnd(_, _)
readIdentifierEnd(input, position) ==
    IF position < Len(input) /\ (isalnum(input[position + 1]) \/ input[position + 1] = "_")
    THEN readIdentifierEnd(input, position + 1)
    ELSE position

readIdentifier(input, position) ==
    LET end == readIdentifierEnd(input, position)
        identifier == substr(input, position, end - position)
    IN  [token |-> Token(IF isFunction(identifier) THEN "FUNCTION" ELSE "VARIABLE",
                         identifier, position),
         position |-> end]

SingleCharType(c) ==
    CASE c = "+" -> "PLUS"
      [] c = "-" -> "MINUS"
      [] c = "*" -> "MULTIPLY"
      [] c = "/" -> "DIVIDE"
      [] c = "^" -> "POWER"
      [] c = "(" -> "LEFT_PAREN"
      [] c = ")" -> "RIGHT_PAREN"
      [] c = "," -> "COMMA"
      [] OTHER -> "INVALID"

\* getNextToken whose end-of-input branch moves the position on
getNextTokenEndAdvances(input, position0) ==
    LET position == skipWhitespace(input, position0)
    IN  IF position >= Len(input)
        THEN [token |-> Token("END_OF_FILE", <<>>, position), position |-> position + 1]
        ELSE LET current == input[position + 1]
             IN  IF isdigit(current) \/ current = "." THEN readNumber(input, position)
                 ELSE IF isalpha(current) \/ current = "_"
                      THEN readIdentifier(input, position)
                 ELSE [token |-> Token(SingleCharType(current), <<current>>, position),
                       position |-> position + 1]

getNextToken(input, position0) ==
    LET position == skipWhitespace(input, position0)
    IN  IF position >= Len(input)
        THEN [token |-> Token("END_OF_FILE", <<>>, position), position |-> position]
        ELSE LET current == input[position + 1]
             IN  IF isdigit(current) \/ current = "." THEN readNumber(input, position)
                 ELSE IF isalpha(current) \/ current = "_"
                      THEN readIdentifier(input, position)
                 ELSE [token |-> Token(SingleCharType(current), <<current>>, position),
                       position |-> position + 1]

\* the tokens of input up to and including End, by repeated getNextToken
RECURSIVE TokensFrom(_, _)
TokensFrom(input, position) ==
    LET r == getNextToken(input, position)
    IN  IF r.token.type = "END_OF_FILE" THEN <<r.token>>
        ELSE <<r.token>> \o TokensFrom(input, r.position)

Tokens(input) == TokensFrom(input, 0)

(***************************************************************************)
(* AST nodes (ExpressionParser.h).  Every node is a record of the same     *)
(* shape: k the class, op the OpType, name the variable or function name,  *)
(* value the number, kids the owned children in order.                     *)
(***************************************************************************)
Null == [k |-> "Null", op |-> "", name |-> <<>>, value |-> Untracked, kids |-> <<>>]

NumberNode(v) ==
    [k |-> "Number", op |-> "", name |-> <<>>, value |-> v, kids |-> <<>>]

VariableNode(varName) ==
    [k |-> "Variable", op |-> "", name |-> varName, value |-> Untracked, kids |-> <<>>]

BinaryOpNode(op, l, r) ==
    [k |-> "BinaryOp", op |-> op, name |-> <<>>, value |-> Untracked, kids |-> <<l, r>>]

UnaryOpNode(op, operand) ==
    [k |-> "UnaryOp", op |-> op, name |-> <<>>, value |-> Untracked, kids |-> <<operand>>]

FunctionNode(funcName, args) ==
    [k |-> "Function", op |-> "", name |-> funcName, value |-> Untracked, kids |-> args]

(***************************************************************************)
(* Exceptions: the class thrown and what() in its parts: the fixed text,   *)
(* the text appended to it (a token's value, a name) and the position      *)
(* appended by Parser::expect (" at position N").                          *)
(***************************************************************************)
NoError == [class |-> "", msg |-> "", value |-> <<>>, hasPos |-> FALSE, pos |-> 0]

\* throw std::runtime_error(msg + value)
Error(msg, value) ==
    [class |-> "std::runtime_error", msg |-> msg, value |-> value,
     hasPos |-> FALSE, pos |-> 0]

\* throw std::runtime_error(msg + " at position " + std::to_string(pos))
ErrorAt(msg, pos) ==
    [class |-> "std::runtime_error", msg |-> msg, value |-> <<>>,
     hasPos |-> TRUE, pos |-> pos]

\* the exception std::stod throws: what() is "stod"
StodError(class) ==
    [class |-> class, msg |-> "stod", value |-> <<>>, hasPos |-> FALSE, pos |-> 0]

\* the classes a catch (const std::exception&) clause catches
StdExceptions ==
    {"std::runtime_error", "std::invalid_argument", "std::out_of_range"}

(***************************************************************************)
(* The recursive-descent parser (Parser in ExpressionParser.cpp).  The     *)
(* parser state st is [position, currentToken]: the lexer's cursor and the *)
(* one-token lookahead.  Each parse function returns [ok, node, st, err]:  *)
(* ok FALSE stands for the exception thrown by throwError, which unwinds   *)
(* every caller.                                                           *)
(***************************************************************************)
Ok(node, st) == [ok |-> TRUE, node |-> node, st |-> st, err |-> NoError]

Thrown(err, st) == [ok |-> FALSE, node |-> Null, st |-> st, err |-> err]

advance(input, st) ==
    LET r == getNextToken(input, st.position)
    IN  [position |-> r.position, currentToken |-> r.token]

\* Parser::Parser: the lexer at 0, then advance()
NewParser(input) ==
    advance(input, [position |-> 0, currentToken |-> Token("INVALID", <<>>, 0)])

\* Parser::expect: the error thrown, or NoError when the token is as expected
expect(st, type, message) ==
    IF st.currentToken.type # type
    THEN ErrorAt(IF message = "" THEN "Unexpected token" ELSE message,
                 st.currentToken.position)
    ELSE NoError

getPrecedence(type) ==
    CASE type \in {"PLUS", "MINUS"} -> 1
      [] type \in {"MULTIPLY", "DIVIDE"} -> 2
      [] type = "POWER" -> 3
      [] OTHER -> 0

isRightAssociative(type) == type = "POWER"

RECURSIVE parseExpression(_, _), parseTerm(_, _), parseTermLoop(_, _, _),
          parseFactor(_, _), parseFactorLoop(_, _, _), parsePower(_, _),
          parsePrimary(_, _), parseFunction(_, _), parseArguments(_, _, _)

parseExpression(input, st) == parseTerm(input, st)

\* left = std::make_unique<BinaryOpNode>(op, std::move(left), std::move(right))
\* in the loop of parseTerm, right being the outcome of parseFactor()
parseTermRight(input, op, left, right) ==
    IF ~right.ok THEN right
    ELSE parseTermLoop(input, BinaryOpNode(op, left, right.node), right.st)

\* the while loop of parseTerm, left being the tree built so far
parseTermLoop(input, left, st) ==
    IF st.currentToken.type = "PLUS" \/ st.currentToken.type = "MINUS"
    THEN parseTermRight(input,
                        IF st.currentToken.type = "PLUS" THEN "ADD" ELSE "SUBTRACT",
                        left, parseFactor(input, advance(input, st)))
    ELSE Ok(left, st)

\* parseTerm after auto left = parseFactor()
parseTermLeft(input, left) ==
    IF ~left.ok THEN left ELSE parseTermLoop(input, left.node, left.st)

parseTerm(input, st) == parseTermLeft(input, parseFactor(input, st))

\* the tree built in the loop of parseFactor, right being the outcome of
\* parsePower()
parseFactorRight(input, op, left, right) ==
    IF ~right.ok THEN right
    ELSE parseFactorLoop(input, BinaryOpNode(op, left, right.node), right.st)

\* parseFactor's loop with the operand of an implicit multiplication read
\* by parsePrimary: 2x^2 would no longer mean 2 * (x ^ 2)
parseFactorLoopImplicitPrimary(input, left, st) ==
    IF st.currentToken.type \in {"MULTIPLY", "DIVIDE"}
    THEN parseFactorRight(input,
                          IF st.currentToken.type = "DIVIDE" THEN "DIVIDE"
                          ELSE "MULTIPLY",
                          left, parsePower(input, advance(input, st)))
    ELSE IF st.currentToken.type \in {"NUMBER", "VARIABLE", "FUNCTION", "LEFT_PAREN"}
    THEN parseFactorRight(input, "MULTIPLY", left, parsePrimary(input, st))
    ELSE Ok(left, st)

\* the while loop of parseFactor; an operand-starting token continues the
\* chain as a multiplication without being consumed
parseFactorLoop(input, left, st) ==
    IF st.currentToken.type \in {"MULTIPLY", "DIVIDE", "NUMBER", "VARIABLE",
                                 "FUNCTION", "LEFT_PAREN"}
    THEN parseFactorRight(input,
                          IF st.currentToken.type = "DIVIDE" THEN "DIVIDE"
                          ELSE "MULTIPLY",
                          left,
                          parsePower(input,
                                     IF st.currentToken.type \in {"MULTIPLY", "DIVIDE"}
                                     THEN advance(input, st) ELSE st))
    ELSE Ok(left, st)

\* parseFactor after auto left = parsePower()
parseFactorLeft(input, left) ==
    IF ~left.ok THEN left ELSE parseFactorLoop(input, left.node, left.st)

parseFactor(input, st) == parseFactorLeft(input, parsePower(input, st))

\* the POWER node of parsePower, right being the outcome of parsePower()
parsePowerRight(left, right) ==
    IF ~right.ok THEN right
    ELSE Ok(BinaryOpNode("POWER", left.node, right.node), right.st)

\* parsePower with its right operand read by parsePrimary: the chain
\* a ^ b ^ c would no longer group to the right
parsePowerOperandPrimary(input, left) ==
    IF ~left.ok THEN left
    ELSE IF left.st.currentToken.type = "POWER"
    THEN parsePowerRight(left, parsePrimary(input, advance(input, left.st)))
    ELSE left

\* parsePower after auto left = parsePrimary()
parsePowerLeft(input, left) ==
    IF ~left.ok THEN left
    ELSE IF left.st.currentToken.type = "POWER"
    THEN parsePowerRight(left, parsePower(input, advance(input, left.st)))
    ELSE left

parsePower(input, st) == parsePowerLeft(input, parsePrimary(input, st))

\* case TokenType::NUMBER, value being the outcome of std::stod
parseNumber(value, next) ==
    IF ~value.ok THEN Thrown(StodError(value.class), next)
    ELSE Ok(NumberNode(value.val), next)

\* case TokenType::LEFT_PAREN after auto expr = parseExpression()
parseParenthesised(input, expr) ==
    IF ~expr.ok THEN expr
    ELSE IF expect(expr.st, "RIGHT_PAREN", "Expected closing parenthesis") # NoError
    THEN Thrown(expect(expr.st, "RIGHT_PAREN", "Expected closing parenthesis"),
                expr.st)
    ELSE Ok(expr.node, advance(input, expr.st))

\* case TokenType::PLUS / MINUS after auto operand = parsePrimary()
parseSigned(op, operand) ==
    IF ~operand.ok THEN operand
    ELSE Ok(UnaryOpNode(op, operand.node), operand.st)

\* a parsePrimary whose sign takes a whole power as its operand
parsePrimarySignsPower(input, st) ==
    CASE st.currentToken.type = "NUMBER" ->
           parseNumber(stod(st.currentToken.value),
                       IF stod(st.currentToken.value).ok THEN advance(input, st)
                       ELSE st)
      [] st.currentToken.type = "VARIABLE" ->
           Ok(VariableNode(st.currentToken.value), advance(input, st))
      [] st.currentToken.type = "FUNCTION" -> parseFunction(input, st)
      [] st.currentToken.type = "LEFT_PAREN" ->
           parseParenthesised(input, parseExpression(input, advance(input, st)))
      [] st.currentToken.type = "PLUS" \/ st.currentToken.type = "MINUS" ->
           parseSigned(IF st.currentToken.type = "PLUS" THEN "POSITIVE"
                       ELSE "NEGATIVE",
                       parsePower(input, advance(input, st)))
      [] OTHER -> Thrown(Error("Unexpected token: ", st.currentToken.value), st)

\* a NUMBER token whose text std::stod rejects throws before advance()
parsePrimary(input, st) ==
    CASE st.currentToken.type = "NUMBER" ->
           parseNumber(stod(st.currentToken.value),
                       IF stod(st.currentToken.value).ok THEN advance(input, st)
                       ELSE st)
      [] st.currentToken.type = "VARIABLE" ->
           Ok(VariableNode(st.currentToken.value), advance(input, st))
      [] st.currentToken.type = "FUNCTION" -> parseFunction(input, st)
      [] st.currentToken.type = "LEFT_PAREN" ->
           parseParenthesised(input, parseExpression(input, advance(input, st)))
      [] st.currentToken.type = "PLUS" \/ st.currentToken.type = "MINUS" ->
           parseSigned(IF st.currentToken.type = "PLUS" THEN "POSITIVE"
                       ELSE "NEGATIVE",
                       parsePrimary(input, advance(input, st)))
      [] OTHER -> Thrown(Error("Unexpected token: ", st.currentToken.value), st)

\* arguments.push_back(parseExpression()) in the loop of parseFunction
parseArgumentsNext(input, arguments, arg) ==
    IF ~arg.ok THEN arg
    ELSE parseArguments(input, Append(arguments, arg.node), arg.st)

\* the while loop of parseFunction collecting the arguments after a comma;
\* the list is carried as the kids of a nameless Function node
parseArguments(input, arguments, st) ==
    IF st.currentToken.type = "COMMA"
    THEN parseArgumentsNext(input, arguments,
                            parseExpression(input, advance(input, st)))
    ELSE Ok(FunctionNode(<<>>, arguments), st)

\* the first argument of parseFunction, parsed when the list is not empty
parseFirstArgument(input, first) ==
    IF ~first.ok THEN first ELSE parseArguments(input, <<first.node>>, first.st)

\* parseFunction from the closing parenthesis on
parseFunctionClose(input, funcName, args) ==
    IF ~args.ok THEN args
    ELSE IF expect(args.st, "RIGHT_PAREN", "Expected closing parenthesis") # NoError
    THEN Thrown(expect(args.st, "RIGHT_PAREN", "Expected closing parenthesis"),
                args.st)
    ELSE Ok(FunctionNode(funcName, args.node.kids), advance(input, args.st))

\* parseFunction from the opening parenthesis on, st1 being the parser
\* after the function name
parseFunctionOpen(input, funcName, st1) ==
    IF expect(st1, "LEFT_PAREN",
              "Expected opening parenthesis after function name") # NoError
    THEN Thrown(expect(st1, "LEFT_PAREN",
                       "Expected opening parenthesis after function name"), st1)
    ELSE parseFunctionClose(input, funcName,
             IF advance(input, st1).currentToken.type = "RIGHT_PAREN"
             THEN Ok(FunctionNode(<<>>, <<>>), advance(input, st1))
             ELSE parseFirstArgument(input,
                                     parseExpression(input, advance(input, st1))))

parseFunction(input, st) ==
    parseFunctionOpen(input, st.currentToken.value, advance(input, st))

\* the catch (const std::exception&) block of Parser::parse: what() is
\* rethrown as a std::runtime_error; another class passes through
Rethrown(err) ==
    IF err.class \in StdExceptions
    THEN [err EXCEPT !.class = "std::runtime_error"]
    ELSE err

\* Parser::parse without expect(END_OF_FILE): what follows a complete
\* expression would be dropped silently
ParserParseNoEndCheck(result) ==
    IF ~result.ok
    THEN [ok |-> FALSE, node |-> Null, st |-> result.st,
          err |-> Rethrown(result.err), exprDone |-> FALSE]
    ELSE [ok |-> TRUE, node |-> result.node, st |-> result.st, err |-> NoError,
          exprDone |-> TRUE]

\* Parser::parse after auto result = parseExpression()
ParserParseResult(result) ==
    IF ~result.ok
    THEN [ok |-> FALSE, node |-> Null, st |-> result.st,
          err |-> Rethrown(result.err), exprDone |-> FALSE]
    ELSE IF expect(result.st, "END_OF_FILE", "Expected end of expression") # NoError
    THEN [ok |-> FALSE, node |-> Null, st |-> result.st,
          err |-> Rethrown(expect(result.st, "END_OF_FILE",
                                  "Expected end of expression")),
          exprDone |-> TRUE]
    ELSE [ok |-> TRUE, node |-> result.node, st |-> result.st, err |-> NoError,
          exprDone |-> TRUE]

\* Parser::parse on a parser in state st: [ok, node, st, err, exprDone]
ParserParse(input, st) == ParserParseResult(parseExpression(input, st))

(***************************************************************************)
(* AST toString (BinaryOpNode, UnaryOpNode, NumberNode, VariableNode,      *)
(* FunctionNode ::toString).                                               *)
(***************************************************************************)
Chars(str) ==
    CASE str = "+" -> <<"+">>
      [] str = "-" -> <<"-">>
      [] str = "*" -> <<"*">>
      [] str = "/" -> <<"/">>
      [] str = "^" -> <<"^">>
      [] str = "?" -> <<"?">>
      [] str = "sin" -> <<"s", "i", "n">>
      [] str = "cos" -> <<"c", "o", "s">>
      [] str = "tan" -> <<"t", "a", "n">>
      [] str = "log" -> <<"l", "o", "g">>
      [] str = "ln" -> <<"l", "n">>
      [] str = "sqrt" -> <<"s", "q", "r", "t">>
      [] str = "abs" -> <<"a", "b", "s">>
      [] str = "unknown" -> <<"u", "n", "k", "n", "o", "w", "n">>

BinaryOpStr(op) ==
    CASE op = "ADD" -> "+"
      [] op = "SUBTRACT" -> "-"
      [] op = "MULTIPLY" -> "*"
      [] op = "DIVIDE" -> "/"
      [] op = "POWER" -> "^"

UnaryOpName(op) ==
    CASE op = "SIN" -> "sin"
      [] op = "COS" -> "cos"
      [] op = "TAN" -> "tan"
      [] op = "LOG" -> "log"
      [] op = "LN" -> "ln"
      [] op = "SQRT" -> "sqrt"
      [] op = "ABS" -> "abs"
      [] OTHER -> "unknown"

RECURSIVE ASTToString(_), ASTArgsToString(_, _)

\* the arguments from index i on, separated by ", "
ASTArgsToString(args, i) ==
    IF i > Len(args) THEN <<>>
    ELSE (IF i > 1 THEN <<",", " ">> ELSE <<>>)
         \o ASTToString(args[i]) \o ASTArgsToString(args, i + 1)

ASTToString(node) ==
    CASE node.k = "BinaryOp" ->
               <<"(">> \o ASTToString(node.kids[1]) \o <<" ">>
               \o Chars(BinaryOpStr(node.op)) \o <<" ">>
               \o ASTToString(node.kids[2]) \o <<")">>
      [] node.k = "UnaryOp" ->
               IF node.op = "POSITIVE" THEN <<"+">> \o ASTToString(node.kids[1])
               ELSE IF node.op = "NEGATIVE" THEN <<"-">> \o ASTToString(node.kids[1])
               ELSE Chars(UnaryOpName(node.op)) \o <<"(">>
                    \o ASTToString(node.kids[1]) \o <<")">>
      [] node.k = "Number" -> FormatDouble(node.value)
      [] node.k = "Variable" -> node.name
      [] node.k = "Function" ->
               node.name \o <<"(">> \o ASTArgsToString(node.kids, 1) \o <<")">>

\* every number of the tree has a value the model tracks
RECURSIVE TrackedTree(_)
TrackedTree(node) ==
    /\ node.k = "Number" => IsTracked(node.value)
    /\ \A i \in 1..Len(node.kids) : TrackedTree(node.kids[i])

(***************************************************************************)
(* AST evaluate.  An outcome is [st, val, err]: st "ok" with the number    *)
(* returned, "err" with the exception thrown, or "unknown" when the        *)
(* outcome hangs on a comparison of a value the model does not track.      *)
(***************************************************************************)
Returned(v) == [st |-> "ok", val |-> v, err |-> NoError]

Threw(err) == [st |-> "err", val |-> Untracked, err |-> err]

Unknown == [st |-> "unknown", val |-> Untracked, err |-> NoError]

NotRun == [st |-> "none", val |-> Untracked, err |-> NoError]

\* the positive integer k with 10^k = n, or -1
RECURSIVE Log10Exact(_)
Log10Exact(n) ==
    IF n = 1 THEN 0
    ELSE IF n % 10 # 0 THEN -1
    ELSE LET k == Log10Exact(n \div 10) IN IF k < 0 THEN -1 ELSE k + 1

\* <cmath> on a tracked argument: the exact value where it is rational and
\* known, otherwise a number the model does not track
MathSin(v) == IF QIsZero(v) THEN Num(0) ELSE Untracked

MathCos(v) == IF QIsZero(v) THEN Num(1) ELSE Untracked

MathTan(v) == IF QIsZero(v) THEN Num(0) ELSE Untracked

MathLog10(v) ==
    IF IsTracked(v) /\ v.d = 1 /\ v.n > 0 /\ Log10Exact(v.n) >= 0
    THEN Num(Log10Exact(v.n)) ELSE Untracked

MathLog(v) == IF v = Num(1) THEN Num(0) ELSE Untracked

MathSqrt(v) ==
    IF Exact(v) /\ v.n >= 0 /\ ISqrt(v.n) >= 0 /\ ISqrt(v.d) >= 0
    THEN Q(ISqrt(v.n), ISqrt(v.d)) ELSE Untracked

MathAbs(v) == IF IsTracked(v) THEN [n |-> Abs(v.n), d |-> v.d] ELSE Untracked

\* the switch of BinaryOpNode::evaluate on the two operand values
BinaryOpApply(op, leftVal, rightVal) ==
    CASE op = "ADD" -> Returned(QAdd(leftVal, rightVal))
      [] op = "SUBTRACT" -> Returned(QSub(leftVal, rightVal))
      [] op = "MULTIPLY" -> Returned(QMul(leftVal, rightVal))
      [] op = "DIVIDE" ->
               IF ~IsTracked(rightVal) THEN Unknown
               ELSE IF QIsZero(rightVal) THEN Threw(Error("Division by zero", <<>>))
               ELSE Returned(QDiv(leftVal, rightVal))
      [] op = "POWER" -> Returned(QPow(leftVal, rightVal))
      [] OTHER -> Threw(Error("Unknown binary operation", <<>>))

\* the switch of UnaryOpNode::evaluate on the operand value
UnaryOpApply(op, val) ==
    CASE op = "POSITIVE" -> Returned(val)
      [] op = "NEGATIVE" -> Returned(QNeg(val))
      [] op = "SIN" -> Returned(MathSin(val))
      [] op = "COS" -> Returned(MathCos(val))
      [] op = "TAN" -> Returned(MathTan(val))
      [] op = "LOG" ->
               IF ~IsTracked(val) THEN Unknown
               ELSE IF QLeqZero(val) THEN Threw(Error("Log of non-positive number", <<>>))
               ELSE Returned(MathLog10(val))
      [] op = "LN" ->
               IF ~IsTracked(val) THEN Unknown
               ELSE IF QLeqZero(val)
                    THEN Threw(Error("Natural log of non-positive number", <<>>))
               ELSE Returned(MathLog(val))
      [] op = "SQRT" ->
               IF ~IsTracked(val) THEN Unknown
               ELSE IF QLtZero(val)
                    THEN Threw(Error("Square root of negative number", <<>>))
               ELSE Returned(MathSqrt(val))
      [] op = "ABS" -> Returned(MathAbs(val))
      [] OTHER -> Threw(Error("Unknown unary operation", <<>>))

\* the chain of name tests of FunctionNode::evaluate on the argument value
FunctionApply(functionName, arg) ==
    CASE functionName = Chars("sin") -> Returned(MathSin(arg))
      [] functionName = Chars("cos") -> Returned(MathCos(arg))
      [] functionName = Chars("tan") -> Returned(MathTan(arg))
      [] functionName = Chars("log") ->
               IF ~IsTracked(arg) THEN Unknown
               ELSE IF QLeqZero(arg) THEN Threw(Error("Log of non-positive number", <<>>))
               ELSE Returned(MathLog10(arg))
      [] functionName = Chars("ln") ->
               IF ~IsTracked(arg) THEN Unknown
               ELSE IF QLeqZero(arg)
                    THEN Threw(Error("Natural log of non-positive number", <<>>))
               ELSE Returned(MathLog(arg))
      [] functionName = Chars("sqrt") ->
               IF ~IsTracked(arg) THEN Unknown
               ELSE IF QLtZero(arg)
                    THEN Threw(Error("Square root of negative number", <<>>))
               ELSE Returned(MathSqrt(arg))
      [] functionName = Chars("abs") -> Returned(MathAbs(arg))
      [] OTHER -> Threw(Error("Unknown function: ", functionName))

\* BinaryOpNode::evaluate with the right operand evaluated first
BinaryOpEvaluateRightFirst(op, left, right) ==
    IF right.st # "ok" THEN right
    ELSE IF left.st # "ok" THEN left
    ELSE BinaryOpApply(op, left.val, right.val)

BinaryOpEvaluate(op, left, right) ==
    IF left.st # "ok" THEN left
    ELSE IF right.st # "ok" THEN right
    ELSE BinaryOpApply(op, left.val, right.val)

RECURSIVE ASTEvaluate(_, _)
ASTEvaluate(node, variables) ==
    CASE node.k = "BinaryOp" ->
               BinaryOpEvaluate(node.op, ASTEvaluate(node.kids[1], variables),
                                ASTEvaluate(node.kids[2], variables))
      [] node.k = "UnaryOp" ->
               LET val == ASTEvaluate(node.kids[1], variables)
               IN  IF val.st # "ok" THEN val ELSE UnaryOpApply(node.op, val.val)
      [] node.k = "Number" -> Returned(node.value)
      [] node.k = "Variable" ->
               IF node.name \notin DOMAIN variables
               THEN Threw(Error("Undefined variable: ", node.name))
               ELSE Returned(variables[node.name])
      [] node.k = "Function" ->
               IF Len(node.kids) # 1
               THEN Threw(Error("Function expects 1 argument", node.name))
               ELSE LET arg == ASTEvaluate(node.kids[1], variables)
                    IN  IF arg.st # "ok" THEN arg ELSE FunctionApply(node.name, arg.val)

(***************************************************************************)
(* ExpressionParser: the facade over Parser and the tree.                  *)
(***************************************************************************)
NotParsed == [ok |-> FALSE, node |-> Null]

\* ExpressionParser::parse whose catch block leaves ast alone: the tree of
\* an earlier successful parse would survive a failed one
ExpressionParserParseKeepsTree(expr, r) ==
    /\ text' = expr
    /\ pc' = "parsed"
    /\ currentToken' = r.st.currentToken
    /\ exprDone' = r.exprDone
    /\ hadTree' = (ast # Null)
    /\ IF r.ok
       THEN /\ ast' = r.node
            /\ hasParsingError' = FALSE
            /\ lastError' = NoError
       ELSE /\ hasParsingError' = TRUE
            /\ lastError' = r.err
            /\ ast' = ast
    /\ parseReturn' = r.ok
    /\ escaped' = FALSE
    /\ bindings' = <<>>
    /\ evalResult' = NotRun
    /\ printed' = <<>>
    /\ reparsed' = NotParsed
    /\ UNCHANGED <<lexer, expression, derivative, simplified, shown, integral, solution,
                   factors, again>>

\* ExpressionParser::parse(expression), r being the outcome of
\* Parser parser(expression); parser.parse()
ExpressionParserParseOutcome(expr, r) ==
    /\ text' = expr
    /\ pc' = "parsed"
    /\ currentToken' = r.st.currentToken
    /\ exprDone' = r.exprDone
    /\ hadTree' = (ast # Null)
    /\ IF r.ok
       THEN /\ ast' = r.node
            /\ hasParsingError' = FALSE
            /\ lastError' = NoError
            /\ parseReturn' = TRUE
            /\ escaped' = FALSE
       ELSE IF r.err.class \in StdExceptions
       THEN /\ hasParsingError' = TRUE
            /\ lastError' = r.err
            /\ ast' = Null
            /\ parseReturn' = FALSE
            /\ escaped' = FALSE
       ELSE /\ escaped' = TRUE
            /\ UNCHANGED <<ast, hasParsingError, lastError, parseReturn>>
    /\ bindings' = <<>>
    /\ evalResult' = NotRun
    /\ printed' = <<>>
    /\ reparsed' = NotParsed
    /\ UNCHANGED <<lexer, expression, derivative, simplified, shown, integral, solution,
                   factors, again>>

ExpressionParserParse(expr) ==
    ExpressionParserParseOutcome(expr, ParserParse(expr, NewParser(expr)))

\* ExpressionParser::evaluate(variables)
ExpressionParserEvaluate(variables) ==
    /\ pc' = "evaluated"
    /\ bindings' = variables
    /\ evalResult' = IF ast = Null
                     THEN Threw(Error("No expression parsed", <<>>))
                     ELSE ASTEvaluate(ast, variables)
    /\ UNCHANGED <<text, lexer, ast, lastError, hasParsingError, parseReturn, hadTree, escaped,
                   currentToken, exprDone, printed, reparsed,
                   expression, derivative, simplified, shown, integral, solution,
                   factors, again>>

\* ExpressionParser::toString()
ExpressionParserToString ==
    /\ pc' = "printed"
    /\ printed' = IF ast = Null
                  THEN <<"N", "o", " ", "e", "x", "p", "r", "e", "s", "s", "i", "o", "n", " ", "p", "a", "r", "s", "e", "d">>
                  ELSE ASTToString(ast)
    /\ UNCHANGED <<text, lexer, ast, lastError, hasParsingError, parseReturn, hadTree, escaped,
                   currentToken, exprDone, bindings, evalResult, reparsed,
                   expression, derivative, simplified, shown, integral, solution,
                   factors, again>>

Reparsed(r) == [ok |-> r.ok, node |-> r.node]

\* a second ExpressionParser parses the printed text: parse(toString())
Reparse ==
    /\ pc' = "reparsed"
    /\ reparsed' = Reparsed(ParserParse(printed, NewParser(printed)))
    /\ UNCHANGED <<text, lexer, ast, lastError, hasParsingError, parseReturn, hadTree, escaped,
                   currentToken, exprDone, bindings, evalResult, printed,
                   expression, derivative, simplified, shown, integral, solution,
                   factors, again>>

\* the state after ExpressionParser::ExpressionParser() (and, for the
\* engine's variables, after SymbolicEngine's construction)
Constructed ==
    /\ pc = "init"
    /\ ast = Null
    /\ lastError = NoError
    /\ hasParsingError = FALSE
    /\ parseReturn = FALSE
    /\ hadTree = FALSE
    /\ escaped = FALSE
    /\ currentToken = Token("INVALID", <<>>, 0)
    /\ exprDone = FALSE
    /\ bindings = <<>>
    /\ evalResult = NotRun
    /\ printed = <<>>
    /\ reparsed = NotParsed
    /\ expression = Null
    /\ derivative = [st |-> "none", node |-> Null, err |-> NoError]
    /\ simplified = [st |-> "none", node |-> Null, err |-> NoError]
    /\ shown = <<>>
    /\ integral = [st |-> "none", node |-> Null, err |-> NoError]
    /\ solution = [st |-> "none", node |-> Null, err |-> NoError]
    /\ factors = [st |-> "none", node |-> Null, err |-> NoError]
    /\ again = [st |-> "none", node |-> Null, err |-> NoError]
    /\ lexer = [position |-> 0, returned |-> <<>>, first |-> <<>>, resets |-> 0]

\* the variables maps handed to evaluate
Environments ==
    {<<>>,
     <<"x">> :> Num(5),
     (<<"x">> :> Num(0)) @@ (<<"u", "n", "k", "n", "o", "w", "n">> :> Num(3))}

\* one text goes through parse, then evaluate or toString and a re-parse
NextParser ==
    \/ pc = "init" /\ ExpressionParserParse(text)
    \/ pc = "parsed" /\ parseReturn /\ \E variables \in Environments :
                                           ExpressionParserEvaluate(variables)
    \/ pc = "parsed" /\ parseReturn /\ ExpressionParserToString
    \/ pc = "printed" /\ Reparse

(***************************************************************************)
(* Texts.  A text is a sequence of characters; the sets of texts the       *)
(* scenarios start from are built from lexemes.                            *)
(***************************************************************************)
\* every concatenation of at most len lexemes of the set
RECURSIVE TextsOver(_, _)
TextsOver(lexemes, len) ==
    IF len = 0 THEN {<<>>}
    ELSE LET shorter == TextsOver(lexemes, len - 1)
         IN  shorter \cup {t \o l : t \in shorter, l \in lexemes}

(***************************************************************************)
(* Precedence and associativity: expressions built from operands,          *)
(* parentheses and binary operators.                                       *)
(***************************************************************************)
MaxOperators == 2

Operands == {<<"2">>, <<"3">>}

BinaryOperators == {"+", "-", "*", "/", "^"}

\* the expressions with exactly n binary operators, a compound operand
\* standing bare or in parentheses
RECURSIVE BinaryExpressions(_), BinaryOperand(_)
BinaryExpressions(n) ==
    IF n = 0 THEN Operands
    ELSE UNION {{l \o <<op>> \o r : l \in BinaryOperand(i),
                                    r \in BinaryOperand(n - 1 - i),
                                    op \in BinaryOperators} : i \in 0..(n - 1)}

BinaryOperand(n) ==
    IF n = 0 THEN Operands
    ELSE BinaryExpressions(n) \cup {<<"(">> \o e \o <<")">> : e \in BinaryExpressions(n)}

PrecedenceExamples ==
    {<<"2"," ","+"," ","3"," ","*"," ","4">>,
     <<"(","2"," ","+"," ","3",")"," ","*"," ","4">>,
     <<"1","0"," ","-"," ","3"," ","*"," ","2"," ","+"," ","1">>,
     <<"2"," ","^"," ","3"," ","^"," ","2">>,
     <<"8"," ","/"," ","4"," ","/"," ","2">>,
     <<"(","(","2",")",")"," ","-"," ","(","3"," ","-"," ","1",")">>}

PrecedenceInputs ==
    PrecedenceExamples \cup UNION {BinaryExpressions(n) : n \in 0..MaxOperators}

InitPrecedence == text \in PrecedenceInputs /\ Constructed

SpecPrecedence == InitPrecedence /\ [][NextParser]_vars

\* the tokens of a text without the End token
RECURSIVE Lexemes(_)
Lexemes(tokens) ==
    IF tokens = <<>> \/ Head(tokens).type = "END_OF_FILE" THEN <<>>
    ELSE <<Head(tokens)>> \o Lexemes(Tail(tokens))

\* the number of parentheses open before token i
RECURSIVE DepthAt(_, _)
DepthAt(tokens, i) ==
    IF i = 1 THEN 0
    ELSE DepthAt(tokens, i - 1)
         + (IF tokens[i - 1].type = "LEFT_PAREN" THEN 1
            ELSE IF tokens[i - 1].type = "RIGHT_PAREN" THEN -1 ELSE 0)

TopLevel(tokens, types) ==
    {i \in 1..Len(tokens) : tokens[i].type \in types /\ DepthAt(tokens, i) = 0}

Max(S) == CHOOSE m \in S : \A k \in S : k <= m

Min(S) == CHOOSE m \in S : \A k \in S : m <= k

OperationOf(type) ==
    CASE type = "PLUS" -> "ADD"
      [] type = "MINUS" -> "SUBTRACT"
      [] type = "MULTIPLY" -> "MULTIPLY"
      [] type = "DIVIDE" -> "DIVIDE"
      [] type = "POWER" -> "POWER"

\* The grouping the precedence table prescribes, read off the token
\* sequence without the parser: the text splits at its last top-level + or
\* -, failing that at its last top-level * or /, failing that at its first
\* top-level ^; a text wrapped in parentheses groups as its inside.
RECURSIVE Grouping(_)
Grouping(tokens) ==
    LET additive == TopLevel(tokens, {"PLUS", "MINUS"})
        multiplicative == TopLevel(tokens, {"MULTIPLY", "DIVIDE"})
        power == TopLevel(tokens, {"POWER"})
        split == IF additive # {} THEN Max(additive)
                 ELSE IF multiplicative # {} THEN Max(multiplicative)
                 ELSE Min(power)
    IN  IF additive \cup multiplicative \cup power # {}
        THEN BinaryOpNode(OperationOf(tokens[split].type),
                          Grouping(SubSeq(tokens, 1, split - 1)),
                          Grouping(SubSeq(tokens, split + 1, Len(tokens))))
        ELSE IF tokens[1].type = "LEFT_PAREN"
        THEN Grouping(SubSeq(tokens, 2, Len(tokens) - 1))
        ELSE IF tokens[1].type = "NUMBER" THEN NumberNode(stod(tokens[1].value).val)
        ELSE VariableNode(tokens[1].value)

ExampleValue(example, value) ==
    text = example /\ pc = "evaluated" => evalResult = Returned(Num(value))

\* C1: every expression built from operands, parentheses and binary
\* operators parses to the tree in which ^ binds tighter than * and /,
\* these bind tighter than + and -, + - * / group to the left and ^ groups
\* to the right; the examples evaluate to 14, 20, 5 and 512.
PrecedenceAndAssociativity ==
    /\ pc = "parsed" => parseReturn /\ ast = Grouping(Lexemes(Tokens(text)))
    /\ ExampleValue(<<"2"," ","+"," ","3"," ","*"," ","4">>, 14)
    /\ ExampleValue(<<"(","2"," ","+"," ","3",")"," ","*"," ","4">>, 20)
    /\ ExampleValue(<<"1","0"," ","-"," ","3"," ","*"," ","2"," ","+"," ","1">>, 5)
    /\ ExampleValue(<<"2"," ","^"," ","3"," ","^"," ","2">>, 512)

\* a chain of two ^ has been parsed and evaluated
PrecedenceWitness ==
    /\ text = <<"2"," ","^"," ","3"," ","^"," ","2">>
    /\ pc = "evaluated"
    /\ ast = BinaryOpNode("POWER", NumberNode(Num(2)),
                          BinaryOpNode("POWER", NumberNode(Num(3)), NumberNode(Num(2))))
    /\ evalResult.st = "ok"

(***************************************************************************)
(* Implicit multiplication: texts over numbers, names, calls, parentheses  *)
(* and operators, well formed or not.                                      *)
(***************************************************************************)
MaxLexemes == 4

ImplicitLexemes ==
    {<<"2">>, <<"x">>, <<"s", "i", "n">>, <<"(">>, <<")">>,
     <<"+">>, <<"-">>, <<"*">>, <<"/">>, <<"^">>}

ImplicitExamples ==
    {<<"2","x">>,
     <<"2","x","^","2">>,
     <<"a","/","b"," ","c">>,
     <<"2"," ","-","x">>,
     <<"2"," ","+","x">>,
     <<"2"," ","s","i","n","(","x",")","(","x"," ","+"," ","1",")">>}

ImplicitInputs(len) == ImplicitExamples \cup TextsOver(ImplicitLexemes, len)

InitImplicit == text \in ImplicitInputs(MaxLexemes) /\ Constructed

SpecImplicit == InitImplicit /\ [][NextParser]_vars

\* the tokens after which and before which a juxtaposition multiplies
OperandEnd == {"NUMBER", "VARIABLE", "RIGHT_PAREN"}

OperandStart == {"NUMBER", "VARIABLE", "FUNCTION", "LEFT_PAREN"}

\* the offsets of the tokens that follow an operand without an operator
Juxtaposed(tokens) ==
    {tokens[i + 1].position : i \in {j \in 1..(Len(tokens) - 1) :
                                       /\ tokens[j].type \in OperandEnd
                                       /\ tokens[j + 1].type \in OperandStart}}

\* the text from 0-based offset p on, a * written before each offset of stars
RECURSIVE WithStars(_, _, _)
WithStars(input, stars, p) ==
    IF p >= Len(input) THEN <<>>
    ELSE (IF p \in stars THEN <<"*">> ELSE <<>>)
         \o <<input[p + 1]>> \o WithStars(input, stars, p + 1)

\* the text with every implicit multiplication written out
Explicit(input) == WithStars(input, Juxtaposed(Tokens(input)), 0)

RECURSIVE CountNodes(_, _, _), CountKids(_, _, _, _)
CountNodes(node, k, op) ==
    (IF node.k = k /\ node.op = op THEN 1 ELSE 0) + CountKids(node.kids, 1, k, op)

CountKids(kids, i, k, op) ==
    IF i > Len(kids) THEN 0
    ELSE CountNodes(kids[i], k, op) + CountKids(kids, i + 1, k, op)

CountTokens(tokens, type) == Cardinality({i \in 1..Len(tokens) : tokens[i].type = type})

ExampleTree(example, tree) == text = example /\ pc = "parsed" => ast = tree

\* C2: an operand-starting token (number, variable, function, '(') right
\* after a complete operand multiplies: the text parses as the text with
\* '*' written at each such place does, the right operand being a power
\* expression; the tree has one MULTIPLY node per '*' token and per
\* juxtaposition, so a + or - after an operand never starts an implicit
\* factor; '2x' is 10 at x = 5, '2x^2' is 2 * (x ^ 2), 'a/b c' is
\* (a / b) * c and '2 -x' is the subtraction 2 - x.
ImplicitMultiplication ==
    /\ pc = "parsed" =>
         /\ Reparsed(ParserParse(Explicit(text), NewParser(Explicit(text))))
              = [ok |-> parseReturn, node |-> ast]
         /\ parseReturn =>
              CountNodes(ast, "BinaryOp", "MULTIPLY")
                = CountTokens(Tokens(text), "MULTIPLY")
                  + Cardinality(Juxtaposed(Tokens(text)))
    /\ text = <<"2", "x">> /\ pc = "evaluated" /\ bindings = (<<"x">> :> Num(5))
         => evalResult = Returned(Num(10))
    /\ ExampleTree(<<"2","x","^","2">>,
                   BinaryOpNode("MULTIPLY", NumberNode(Num(2)),
                       BinaryOpNode("POWER", VariableNode(<<"x">>), NumberNode(Num(2)))))
    /\ ExampleTree(<<"a","/","b"," ","c">>,
                   BinaryOpNode("MULTIPLY",
                       BinaryOpNode("DIVIDE", VariableNode(<<"a">>), VariableNode(<<"b">>)),
                       VariableNode(<<"c">>)))
    /\ ExampleTree(<<"2"," ","-","x">>,
                   BinaryOpNode("SUBTRACT", NumberNode(Num(2)), VariableNode(<<"x">>)))

\* a juxtaposition followed by ^ has been parsed into a tree
ImplicitWitness ==
    /\ text = <<"2", "x", "^", "2">>
    /\ pc = "parsed"
    /\ parseReturn
    /\ Juxtaposed(Tokens(text)) = {1}
    /\ CountNodes(ast, "BinaryOp", "MULTIPLY") = 1

(***************************************************************************)
(* The facade under any sequence of calls: one ExpressionParser is handed  *)
(* one text after another, with evaluate and toString in between.          *)
(***************************************************************************)
MaxFacadeLexemes == 2

FacadeLexemes == {<<"2">>, <<"x">>, <<"+">>, <<"(">>, <<")">>, <<".">>}

FacadeInputs == TextsOver(FacadeLexemes, MaxFacadeLexemes)

InitFacade == text = <<>> /\ Constructed

NextFacade ==
    \/ \E expr \in FacadeInputs : ExpressionParserParse(expr)
    \/ ExpressionParserEvaluate(<<"x">> :> Num(5))
    \/ ExpressionParserToString

SpecFacade == InitFacade /\ [][NextFacade]_vars

ParseWasCalled == text # <<>> \/ hasParsingError

\* C3: after any sequence of parse calls no exception has escaped parse and
\* the state is the one the last text alone produces: after true,
\* hasError() is false, getError() is empty and getAST() is a tree; after
\* false, hasError() is true, getError() is a message and getAST() is null,
\* so that evaluate fails with 'No expression parsed'.
FacadeReflectsLastParse ==
    /\ ~escaped
    /\ ParseWasCalled =>
         /\ Reparsed(ParserParse(text, NewParser(text)))
              = [ok |-> parseReturn, node |-> ast]
         /\ parseReturn => ~hasParsingError /\ lastError = NoError /\ ast # Null
         /\ ~parseReturn =>
              /\ hasParsingError
              /\ lastError.msg # ""
              /\ ast = Null
              /\ pc = "evaluated" =>
                   evalResult = Threw(Error("No expression parsed", <<>>))

\* a failed parse came after a successful one, and evaluate was called
FacadeWitness ==
    /\ hadTree
    /\ ~parseReturn
    /\ hasParsingError
    /\ pc = "evaluated"
    /\ evalResult.st = "err"

(***************************************************************************)
(* Parse errors: texts with stray operators, parentheses, commas and       *)
(* characters outside the language.                                        *)
(***************************************************************************)
ErrorLexemes ==
    {<<"2">>, <<"x">>, <<"+">>, <<"*">>, <<"(">>, <<")">>, <<",">>, <<"$">>,
     <<"s", "i", "n", "(">>}

ErrorExamples ==
    {<<"2"," ","+">>,
     <<"2"," ","+"," ">>,
     <<"(","2"," ","+"," ","3",")"," ","*"," ","4"," ",")">>,
     <<"s","i","n","(","x",")",","," ","2">>,
     <<"2"," ","x"," ","$">>}

ErrorInputs(len) == ErrorExamples \cup TextsOver(ErrorLexemes, len)

InitErrors == text \in ErrorInputs(MaxLexemes) /\ Constructed

SpecErrors == InitErrors /\ [][NextParser]_vars

\* C4: Parser::parse returns a tree only with the End token after the
\* parsed expression; when parseExpression has returned a tree and another
\* token follows (a stray ')', a ',', an invalid character), the parse
\* fails with 'Expected end of expression' at that token and no tree is
\* returned.
TrailingTokensRejected ==
    pc = "parsed" =>
      /\ parseReturn => exprDone /\ currentToken.type = "END_OF_FILE" /\ ast # Null
      /\ exprDone /\ currentToken.type # "END_OF_FILE" =>
           /\ ~parseReturn
           /\ ast = Null
           /\ lastError = ErrorAt("Expected end of expression", currentToken.position)
           /\ currentToken.position < Len(text)

\* a complete expression was followed by a comma
TrailingWitness ==
    /\ pc = "parsed"
    /\ exprDone
    /\ currentToken.type = "COMMA"
    /\ ~parseReturn
    /\ lastError.msg = "Expected end of expression"

\* C5: when parsePrimary meets a token that cannot start an expression (a
\* bare operator, a stray ')', a ',', an invalid character, or the end of
\* the text as in '2 +'), the parse fails and the error carries the offset
\* of that token, the end of input for '2 +'.
UnexpectedTokenCarriesOffset ==
    pc = "parsed" /\ lastError.msg = "Unexpected token: " =>
      /\ ~parseReturn
      /\ lastError.hasPos
      /\ lastError.pos = currentToken.position

(***************************************************************************)
(* Evaluation: texts with divisions, logarithms, roots, unbound names and  *)
(* calls of any arity.                                                     *)
(***************************************************************************)
EvaluateLexemes ==
    {<<"0">>, <<"1">>, <<"x">>, <<"y">>, <<"-">>, <<"/">>,
     <<"s", "q", "r", "t", "(">>, <<"l", "n", "(">>, <<")">>, <<",">>}

EvaluateExamples ==
    {<<"2"," ","/"," ","0">>,
     <<"s","q","r","t","(","-","1",")">>,
     <<"1","/","0"," ","+"," ","y">>,
     <<"y"," ","+"," ","1","/","0">>,
     <<"l","o","g","(","0",")">>,
     <<"l","o","g","(","1","0","0",")"," ","+"," ","a","b","s","(","-","4",")">>,
     <<"l","n","(","1",","," ","0",")">>,
     <<"s","i","n","(",")">>,
     <<"s","q","r","t","(","x"," ","-"," ","5",")"," ","/"," ","(","x"," ","-"," ","5",")">>,
     <<"c","o","s","(","0",")"," ","/"," ","s","i","n","(","0",")">>,
     <<"2"," ","^"," ","0",".","5"," ","/"," ","0">>,
     <<"u","n","k","n","o","w","n","(","5",")">>}

EvaluateInputs(len) == EvaluateExamples \cup TextsOver(EvaluateLexemes, len)

InitEvaluate == text \in EvaluateInputs(MaxLexemes) /\ Constructed

SpecEvaluate == InitEvaluate /\ [][NextParser]_vars

\* the number a node denotes under the bindings where every operation in
\* it is defined and tracked, Untracked otherwise
RECURSIVE Denotes(_, _)
Denotes(node, variables) ==
    CASE node.k = "Number" -> node.value
      [] node.k = "Variable" ->
           IF node.name \in DOMAIN variables THEN variables[node.name] ELSE Untracked
      [] node.k = "BinaryOp" ->
           BinaryOpApply(node.op, Denotes(node.kids[1], variables),
                         Denotes(node.kids[2], variables)).val
      [] node.k = "UnaryOp" ->
           UnaryOpApply(node.op, Denotes(node.kids[1], variables)).val
      [] node.k = "Function" ->
           IF Len(node.kids) # 1 THEN Untracked
           ELSE FunctionApply(node.name, Denotes(node.kids[1], variables)).val

\* the failure of a node by itself, its operands having values: "" for
\* none, "?" where the value tested is not tracked
Failure(node, variables) ==
    CASE node.k = "Variable" /\ node.name \notin DOMAIN variables -> "variable"
      [] node.k = "Function" /\ Len(node.kids) # 1 -> "arity"
      [] node.k = "BinaryOp" /\ node.op = "DIVIDE" ->
           IF ~IsTracked(Denotes(node.kids[2], variables)) THEN "?"
           ELSE IF Denotes(node.kids[2], variables).n = 0 THEN "division" ELSE ""
      [] node.k = "Function" /\ node.name \in {<<"l", "o", "g">>, <<"l", "n">>} ->
           IF ~IsTracked(Denotes(node.kids[1], variables)) THEN "?"
           ELSE IF Denotes(node.kids[1], variables).n <= 0 THEN "logarithm" ELSE ""
      [] node.k = "Function" /\ node.name = <<"s", "q", "r", "t">> ->
           IF ~IsTracked(Denotes(node.kids[1], variables)) THEN "?"
           ELSE IF Denotes(node.kids[1], variables).n < 0 THEN "root" ELSE ""
      [] OTHER -> ""

\* the failures of the nodes of a tree in evaluation order: the operands
\* left to right before the node; a call of the wrong arity evaluates no
\* argument; nothing is evaluated after a failure
RECURSIVE Failures(_, _), FailuresOfKids(_, _, _)
Failures(node, variables) ==
    IF Failure(node, variables) = "arity" THEN <<"arity">>
    ELSE FailuresOfKids(node.kids, 1, variables)
         \o (IF Failure(node, variables) = "" THEN <<>>
             ELSE <<Failure(node, variables)>>)

FailuresOfKids(kids, i, variables) ==
    IF i > Len(kids) THEN <<>>
    ELSE Failures(kids[i], variables) \o FailuresOfKids(kids, i + 1, variables)

\* the kind of failure an exception of evaluate reports
FailureReported(err) ==
    CASE err.msg = "Division by zero" -> "division"
      [] err.msg \in {"Log of non-positive number",
                      "Natural log of non-positive number"} -> "logarithm"
      [] err.msg = "Square root of negative number" -> "root"
      [] err.msg = "Undefined variable: " -> "variable"
      [] err.msg = "Function expects 1 argument" -> "arity"
      [] OTHER -> "other"

\* C6: evaluate on a parsed tree throws exactly when some node fails: a
\* division by a right operand equal to 0, log or ln of a value <= 0, sqrt
\* of a value < 0, a variable absent from the bindings, a call with other
\* than one argument; otherwise it returns a number; operands are
\* evaluated left before right, so the error is that of the first failure
\* in that order.
EvaluateFailures ==
    pc = "evaluated" /\ evalResult.st # "unknown"
                     /\ (Failures(ast, bindings) # <<>>
                           => Head(Failures(ast, bindings)) # "?") =>
      /\ evalResult.st = "err" <=> Failures(ast, bindings) # <<>>
      /\ evalResult.st = "err" =>
           FailureReported(evalResult.err) = Head(Failures(ast, bindings))
      /\ evalResult.st # "err" => evalResult.st = "ok"

\* a tree whose two operands both fail has been evaluated
EvaluateWitness ==
    /\ pc = "evaluated"
    /\ ast.k = "BinaryOp"
    /\ Len(Failures(ast, bindings)) >= 2
    /\ Failures(ast, bindings)[1] # Failures(ast, bindings)[2]
    /\ evalResult.st = "err"

\* the text is one call name(argument) of a name outside the registry
CallsUnregistered(input) ==
    /\ Len(Lexemes(Tokens(input))) = 4
    /\ Lexemes(Tokens(input))[1].type = "VARIABLE"
    /\ Lexemes(Tokens(input))[2].type = "LEFT_PAREN"
    /\ Lexemes(Tokens(input))[3].type \in {"NUMBER", "VARIABLE"}
    /\ Lexemes(Tokens(input))[4].type = "RIGHT_PAREN"

\* C7: a call of a name outside the registry, such as 'unknown(5)', is a
\* function call in the tree and evaluating it reports an unknown-function
\* error.
UnknownFunctionReported ==
    CallsUnregistered(text) =>
      /\ pc = "parsed" /\ parseReturn =>
           ast = FunctionNode(Lexemes(Tokens(text))[1].value, ast.kids)
      /\ pc = "evaluated" =>
           /\ evalResult.st = "err"
           /\ evalResult.err = Error("Unknown function: ",
                                     Lexemes(Tokens(text))[1].value)

(***************************************************************************)
(* Round trip: texts with number literals, unary signs, juxtapositions     *)
(* and calls of several arguments.                                         *)
(***************************************************************************)
RoundTripLexemes ==
    {<<"2">>, <<"0", ".", "5">>, <<"1", "2", "3", "4", "5", "6", "7">>, <<"x">>,
     <<"-">>, <<"^">>, <<"(">>, <<")">>, <<",">>, <<"s", "i", "n", "(">>}

RoundTripExamples ==
    {<<"-","x","^","2"," ","+"," ","2","x">>,
     <<"s","i","n","(","1",","," ","2",","," ","x",")">>,
     <<"1","e","-","7"," ","+"," ","1",".","5","e","+","6">>,
     <<"2"," ","-"," ","-","(","x"," ","/"," ","3",")">>,
     <<"1","2","3","4","5","6",".","7">>}

RoundTripInputs(len) == RoundTripExamples \cup TextsOver(RoundTripLexemes, len)

InitRoundTrip == text \in RoundTripInputs(MaxLexemes) /\ Constructed

SpecRoundTrip == InitRoundTrip /\ [][NextParser]_vars

\* C8: for every text that parses, parsing the toString() of the tree
\* succeeds and yields a tree equal to the first one: the same node kinds,
\* operators, names, number values and child order.
RoundTrip ==
    pc = "reparsed" /\ TrackedTree(ast) /\ IsTrackedText(printed)
                    /\ (reparsed.ok => TrackedTree(reparsed.node)) =>
      reparsed.ok /\ reparsed.node = ast

(***************************************************************************)
(* The symbolic tree (SymbolicEngine.h/.cpp).  Nodes have the shape of the *)
(* AST's nodes, under the names of their own classes.                      *)
(***************************************************************************)
SymbolicNumber(val) ==
    [k |-> "SymbolicNumber", op |-> "", name |-> <<>>, value |-> val, kids |-> <<>>]

SymbolicVariable(varName) ==
    [k |-> "SymbolicVariable", op |-> "", name |-> varName, value |-> Untracked,
     kids |-> <<>>]

SymbolicBinaryOp(operation, l, r) ==
    [k |-> "SymbolicBinaryOp", op |-> operation, name |-> <<>>, value |-> Untracked,
     kids |-> <<l, r>>]

SymbolicUnaryOp(operation, operand) ==
    [k |-> "SymbolicUnaryOp", op |-> operation, name |-> <<>>, value |-> Untracked,
     kids |-> <<operand>>]

SymbolicFunction(funcName, args) ==
    [k |-> "SymbolicFunction", op |-> "", name |-> funcName, value |-> Untracked,
     kids |-> args]

\* a conversion that hangs the operands of a binary operation the other way
\* round
RECURSIVE convertASTToSymbolicSwapped(_), convertArgumentsSwapped(_, _)

convertArgumentsSwapped(arguments, i) ==
    IF i > Len(arguments) THEN <<>>
    ELSE <<convertASTToSymbolicSwapped(arguments[i])>>
         \o convertArgumentsSwapped(arguments, i + 1)

convertASTToSymbolicSwapped(node) ==
    CASE node.k = "Number" -> SymbolicNumber(node.value)
      [] node.k = "Variable" -> SymbolicVariable(node.name)
      [] node.k = "BinaryOp" ->
               SymbolicBinaryOp(node.op, convertASTToSymbolicSwapped(node.kids[2]),
                                convertASTToSymbolicSwapped(node.kids[1]))
      [] node.k = "UnaryOp" ->
               SymbolicUnaryOp(node.op, convertASTToSymbolicSwapped(node.kids[1]))
      [] node.k = "Function" ->
               SymbolicFunction(node.name, convertArgumentsSwapped(node.kids, 1))

\* SymbolicEngine::convertASTToSymbolic, one dynamic_cast branch per class
RECURSIVE convertASTToSymbolic(_), convertArguments(_, _)

convertArguments(arguments, i) ==
    IF i > Len(arguments) THEN <<>>
    ELSE <<convertASTToSymbolic(arguments[i])>> \o convertArguments(arguments, i + 1)

convertASTToSymbolic(node) ==
    CASE node.k = "Number" -> SymbolicNumber(node.value)
      [] node.k = "Variable" -> SymbolicVariable(node.name)
      [] node.k = "BinaryOp" ->
               SymbolicBinaryOp(node.op, convertASTToSymbolic(node.kids[1]),
                                convertASTToSymbolic(node.kids[2]))
      [] node.k = "UnaryOp" ->
               SymbolicUnaryOp(node.op, convertASTToSymbolic(node.kids[1]))
      [] node.k = "Function" ->
               SymbolicFunction(node.name, convertArguments(node.kids, 1))

\* clone() of the five classes: every node of the copy is made anew
RECURSIVE clone(_), cloneArguments(_, _)

cloneArguments(arguments, i) ==
    IF i > Len(arguments) THEN <<>>
    ELSE <<clone(arguments[i])>> \o cloneArguments(arguments, i + 1)

clone(e) ==
    CASE e.k = "SymbolicNumber" -> SymbolicNumber(e.value)
      [] e.k = "SymbolicVariable" -> SymbolicVariable(e.name)
      [] e.k = "SymbolicBinaryOp" ->
               SymbolicBinaryOp(e.op, clone(e.kids[1]), clone(e.kids[2]))
      [] e.k = "SymbolicUnaryOp" -> SymbolicUnaryOp(e.op, clone(e.kids[1]))
      [] e.k = "SymbolicFunction" -> SymbolicFunction(e.name, cloneArguments(e.kids, 1))

\* isConstant() of the five classes
RECURSIVE isConstant(_)
isConstant(e) ==
    CASE e.k = "SymbolicNumber" -> TRUE
      [] e.k = "SymbolicVariable" -> FALSE
      [] e.k = "SymbolicBinaryOp" -> isConstant(e.kids[1]) /\ isConstant(e.kids[2])
      [] e.k = "SymbolicUnaryOp" -> isConstant(e.kids[1])
      [] e.k = "SymbolicFunction" -> \A i \in 1..Len(e.kids) : isConstant(e.kids[i])

\* isZero() and isOne() compare a number's value: the answer is known when
\* the value they reach is one the model tracks
RECURSIVE Comparable(_)
Comparable(e) ==
    CASE e.k = "SymbolicNumber" -> IsTracked(e.value)
      [] e.k = "SymbolicUnaryOp" -> Comparable(e.kids[1])
      [] OTHER -> TRUE

RECURSIVE isZero(_)
isZero(e) ==
    CASE e.k = "SymbolicNumber" -> e.value = Num(0)
      [] e.k = "SymbolicUnaryOp" -> isZero(e.kids[1])
      [] OTHER -> FALSE

isOne(e) == e.k = "SymbolicNumber" /\ e.value = Num(1)

(***************************************************************************)
(* toString of the symbolic classes.                                       *)
(***************************************************************************)
\* if (std::floor(v) == v) oss << (long long)v; else oss << v;
CoefficientDigits(v) ==
    IF ~IsTracked(v) THEN <<"?">>
    ELSE IF v.d = 1
    THEN (IF v.n < 0 THEN <<"-">> ELSE <<>>) \o IntDigits(Abs(v.n))
    ELSE FormatDouble(v)

\* neither a variable, a function call nor a unary operation
needParens(e) ==
    e.k \notin {"SymbolicVariable", "SymbolicFunction", "SymbolicUnaryOp"}

\* the coefficient printed in front of the other side's text
CoefficientFirst(coeff, other, parens) ==
    IF ~IsTracked(coeff) THEN <<"?">>
    ELSE IF coeff = Num(1) THEN other
    ELSE IF coeff = Num(-1) THEN <<"-">> \o other
    ELSE CoefficientDigits(coeff)
         \o (IF parens THEN <<"(">> \o other \o <<")">> ELSE other)

SymbolicBinaryOpStr(op) ==
    CASE op = "ADD" -> "+"
      [] op = "SUBTRACT" -> "-"
      [] op = "DIVIDE" -> "/"
      [] op = "POWER" -> "^"
      [] OTHER -> "?"

\* SymbolicBinaryOp::toString, lhs and rhs being the texts of the two sides
SymbolicBinaryOpToString(e, lhs, rhs) ==
    IF e.op = "MULTIPLY"
    THEN IF /\ isConstant(e.kids[1]) /\ isConstant(e.kids[2])
            /\ e.kids[1].k = "SymbolicNumber" /\ e.kids[2].k = "SymbolicNumber"
         THEN CoefficientDigits(QMul(e.kids[1].value, e.kids[2].value))
         ELSE IF /\ isConstant(e.kids[1]) /\ ~isConstant(e.kids[2])
                 /\ e.kids[1].k = "SymbolicNumber"
         THEN CoefficientFirst(e.kids[1].value, rhs, needParens(e.kids[2]))
         ELSE IF /\ ~isConstant(e.kids[1]) /\ isConstant(e.kids[2])
                 /\ e.kids[2].k = "SymbolicNumber"
         THEN CoefficientFirst(e.kids[2].value, lhs, needParens(e.kids[1]))
         ELSE <<"(">> \o lhs \o <<" ", "*", " ">> \o rhs \o <<")">>
    ELSE <<"(">> \o lhs \o <<" ">> \o Chars(SymbolicBinaryOpStr(e.op)) \o <<" ">>
         \o rhs \o <<")">>

RECURSIVE SymbolicToString(_), SymbolicArgsToString(_, _)

SymbolicArgsToString(args, i) ==
    IF i > Len(args) THEN <<>>
    ELSE (IF i > 1 THEN <<",", " ">> ELSE <<>>)
         \o SymbolicToString(args[i]) \o SymbolicArgsToString(args, i + 1)

SymbolicToString(e) ==
    CASE e.k = "SymbolicNumber" -> FormatDouble(e.value)
      [] e.k = "SymbolicVariable" -> e.name
      [] e.k = "SymbolicBinaryOp" ->
               SymbolicBinaryOpToString(e, SymbolicToString(e.kids[1]),
                                        SymbolicToString(e.kids[2]))
      [] e.k = "SymbolicUnaryOp" ->
               IF e.op = "POSITIVE" THEN <<"+">> \o SymbolicToString(e.kids[1])
               ELSE IF e.op = "NEGATIVE" THEN <<"-">> \o SymbolicToString(e.kids[1])
               ELSE Chars(UnaryOpName(e.op)) \o <<"(">>
                    \o SymbolicToString(e.kids[1]) \o <<")">>
      [] e.k = "SymbolicFunction" ->
               e.name \o <<"(">> \o SymbolicArgsToString(e.kids, 1) \o <<")">>

(***************************************************************************)
(* evaluate of the symbolic classes: the outcomes of the AST's evaluate.   *)
(***************************************************************************)
\* the switch of SymbolicBinaryOp::evaluate on the two operand values
SymbolicBinaryOpApply(op, leftVal, rightVal) ==
    CASE op = "ADD" -> Returned(QAdd(leftVal, rightVal))
      [] op = "SUBTRACT" -> Returned(QSub(leftVal, rightVal))
      [] op = "MULTIPLY" -> Returned(QMul(leftVal, rightVal))
      [] op = "DIVIDE" ->
               IF ~IsTracked(rightVal) THEN Unknown
               ELSE IF QIsZero(rightVal) THEN Threw(Error("Division by zero", <<>>))
               ELSE Returned(QDiv(leftVal, rightVal))
      [] op = "POWER" -> Returned(QPow(leftVal, rightVal))
      [] OTHER -> Threw(Error("Unknown binary operation", <<>>))

SymbolicBinaryOpEvaluate(op, left, right) ==
    IF left.st # "ok" THEN left
    ELSE IF right.st # "ok" THEN right
    ELSE SymbolicBinaryOpApply(op, left.val, right.val)

SymbolicUnaryOpEvaluate(op, val) ==
    IF val.st # "ok" THEN val ELSE UnaryOpApply(op, val.val)

SymbolicFunctionEvaluate(functionName, arg) ==
    IF arg.st # "ok" THEN arg ELSE FunctionApply(functionName, arg.val)

RECURSIVE SymbolicEvaluate(_, _)
SymbolicEvaluate(e, variables) ==
    CASE e.k = "SymbolicNumber" -> Returned(e.value)
      [] e.k = "SymbolicVariable" ->
               IF e.name \notin DOMAIN variables
               THEN Threw(Error("Undefined variable: ", e.name))
               ELSE Returned(variables[e.name])
      [] e.k = "SymbolicBinaryOp" ->
               SymbolicBinaryOpEvaluate(e.op, SymbolicEvaluate(e.kids[1], variables),
                                        SymbolicEvaluate(e.kids[2], variables))
      [] e.k = "SymbolicUnaryOp" ->
               SymbolicUnaryOpEvaluate(e.op, SymbolicEvaluate(e.kids[1], variables))
      [] e.k = "SymbolicFunction" ->
               IF Len(e.kids) # 1
               THEN Threw(Error("Function expects 1 argument", e.name))
               ELSE SymbolicFunctionEvaluate(e.name,
                                             SymbolicEvaluate(e.kids[1], variables))

(***************************************************************************)
(* differentiate and simplify produce new trees.  An outcome is            *)
(* [st, node, err]: st "ok" with the tree returned, "err" with the         *)
(* exception thrown, "unknown" when the outcome hangs on a comparison of a *)
(* value the model does not track, "none" before the call.                 *)
(***************************************************************************)
Built(node) == [st |-> "ok", node |-> node, err |-> NoError]

Failed(err) == [st |-> "err", node |-> Null, err |-> err]

Undecided == [st |-> "unknown", node |-> Null, err |-> NoError]

NotBuilt == [st |-> "none", node |-> Null, err |-> NoError]

\* std::make_unique<SymbolicNumber>(evaluate()) on the outcome of evaluate
NumberOf(outcome) ==
    IF outcome.st = "ok" THEN Built(SymbolicNumber(outcome.val))
    ELSE IF outcome.st = "err" THEN Failed(outcome.err)
    ELSE Undecided

\* the product rule with the operands themselves, not clones of them, hung
\* under the new nodes
SymbolicBinaryOpDifferentiateNoClone(e, leftDeriv, rightDeriv) ==
    IF leftDeriv.st # "ok" THEN leftDeriv
    ELSE IF rightDeriv.st # "ok" THEN rightDeriv
    ELSE CASE e.op \in {"ADD", "SUBTRACT"} ->
                   Built(SymbolicBinaryOp(e.op, leftDeriv.node, rightDeriv.node))
           [] e.op = "MULTIPLY" ->
                   Built(SymbolicBinaryOp("ADD",
                             SymbolicBinaryOp("MULTIPLY", e.kids[1], rightDeriv.node),
                             SymbolicBinaryOp("MULTIPLY", e.kids[2], leftDeriv.node)))
           [] e.op = "DIVIDE" ->
                   Built(SymbolicBinaryOp("DIVIDE",
                             SymbolicBinaryOp("SUBTRACT",
                                 SymbolicBinaryOp("MULTIPLY", clone(e.kids[2]), leftDeriv.node),
                                 SymbolicBinaryOp("MULTIPLY", clone(e.kids[1]), rightDeriv.node)),
                             SymbolicBinaryOp("POWER", clone(e.kids[2]), SymbolicNumber(Num(2)))))
           [] OTHER ->
                   Failed(Error("Unknown binary operation in differentiation", <<>>))

\* ADD, SUBTRACT, MULTIPLY and DIVIDE of SymbolicBinaryOp::differentiate on
\* the outcomes of the two sides' differentiate, the left one first
SymbolicBinaryOpDifferentiate(e, leftDeriv, rightDeriv) ==
    IF leftDeriv.st # "ok" THEN leftDeriv
    ELSE IF rightDeriv.st # "ok" THEN rightDeriv
    ELSE CASE e.op \in {"ADD", "SUBTRACT"} ->
                   Built(SymbolicBinaryOp(e.op, leftDeriv.node, rightDeriv.node))
           [] e.op = "MULTIPLY" ->
                   Built(SymbolicBinaryOp("ADD",
                             SymbolicBinaryOp("MULTIPLY", clone(e.kids[1]), rightDeriv.node),
                             SymbolicBinaryOp("MULTIPLY", clone(e.kids[2]), leftDeriv.node)))
           [] e.op = "DIVIDE" ->
                   Built(SymbolicBinaryOp("DIVIDE",
                             SymbolicBinaryOp("SUBTRACT",
                                 SymbolicBinaryOp("MULTIPLY", clone(e.kids[2]), leftDeriv.node),
                                 SymbolicBinaryOp("MULTIPLY", clone(e.kids[1]), rightDeriv.node)),
                             SymbolicBinaryOp("POWER", clone(e.kids[2]), SymbolicNumber(Num(2)))))
           [] OTHER ->
                   Failed(Error("Unknown binary operation in differentiation", <<>>))

\* the POWER case leaving the exponent as it was: base^n in place of base^(n-1)
SymbolicPowerDifferentiateSameExponent(e, expVal, baseDeriv) ==
    IF expVal.st # "ok" THEN NumberOf(expVal)
    ELSE IF baseDeriv.st # "ok" THEN baseDeriv
    ELSE Built(SymbolicBinaryOp("MULTIPLY",
                   SymbolicBinaryOp("POWER", clone(e.kids[1]), SymbolicNumber(expVal.val)),
                   SymbolicBinaryOp("MULTIPLY", SymbolicNumber(expVal.val),
                                    baseDeriv.node)))

\* the POWER case with a constant exponent: expVal is the outcome of
\* right->evaluate(), baseDeriv of left->differentiate(variable)
SymbolicPowerDifferentiate(e, expVal, baseDeriv) ==
    IF expVal.st # "ok" THEN NumberOf(expVal)
    ELSE IF baseDeriv.st # "ok" THEN baseDeriv
    ELSE Built(SymbolicBinaryOp("MULTIPLY",
                   SymbolicBinaryOp("POWER", clone(e.kids[1]),
                                    SymbolicNumber(QSub(expVal.val, Num(1)))),
                   SymbolicBinaryOp("MULTIPLY", SymbolicNumber(expVal.val),
                                    baseDeriv.node)))

\* SymbolicUnaryOp::differentiate on the outcome of the operand's differentiate
SymbolicUnaryOpDifferentiate(e, operandDeriv) ==
    IF operandDeriv.st # "ok" THEN operandDeriv
    ELSE CASE e.op = "POSITIVE" -> operandDeriv
           [] e.op = "NEGATIVE" -> Built(SymbolicUnaryOp("NEGATIVE", operandDeriv.node))
           [] e.op = "SIN" ->
                   Built(SymbolicBinaryOp("MULTIPLY", SymbolicUnaryOp("COS", clone(e.kids[1])),
                                          operandDeriv.node))
           [] e.op = "COS" ->
                   Built(SymbolicBinaryOp("MULTIPLY",
                             SymbolicUnaryOp("NEGATIVE", SymbolicUnaryOp("SIN", clone(e.kids[1]))),
                             operandDeriv.node))
           [] e.op = "TAN" ->
                   Built(SymbolicBinaryOp("MULTIPLY",
                             SymbolicBinaryOp("DIVIDE", SymbolicNumber(Num(1)),
                                 SymbolicBinaryOp("POWER", SymbolicUnaryOp("COS", clone(e.kids[1])),
                                                  SymbolicNumber(Num(2)))),
                             operandDeriv.node))
           [] e.op = "LN" ->
                   Built(SymbolicBinaryOp("MULTIPLY",
                             SymbolicBinaryOp("DIVIDE", SymbolicNumber(Num(1)), clone(e.kids[1])),
                             operandDeriv.node))
           [] e.op = "SQRT" ->
                   Built(SymbolicBinaryOp("MULTIPLY",
                             SymbolicBinaryOp("DIVIDE", SymbolicNumber(Num(1)),
                                 SymbolicBinaryOp("MULTIPLY", SymbolicNumber(Num(2)),
                                                  SymbolicUnaryOp("SQRT", clone(e.kids[1])))),
                             operandDeriv.node))
           [] OTHER ->
                   Failed(Error("Differentiation not implemented for this unary operation",
                                <<>>))

\* SymbolicFunction::differentiate of a one-argument call on the outcome of
\* the argument's differentiate
SymbolicFunctionDifferentiate(e, argDeriv) ==
    IF argDeriv.st # "ok" THEN argDeriv
    ELSE CASE e.name = Chars("sin") ->
                   Built(SymbolicBinaryOp("MULTIPLY", SymbolicUnaryOp("COS", clone(e.kids[1])),
                                          argDeriv.node))
           [] e.name = Chars("cos") ->
                   Built(SymbolicBinaryOp("MULTIPLY",
                             SymbolicUnaryOp("NEGATIVE", SymbolicUnaryOp("SIN", clone(e.kids[1]))),
                             argDeriv.node))
           [] e.name = Chars("ln") ->
                   Built(SymbolicBinaryOp("MULTIPLY",
                             SymbolicBinaryOp("DIVIDE", SymbolicNumber(Num(1)), clone(e.kids[1])),
                             argDeriv.node))
           [] OTHER ->
                   Failed(Error("Differentiation not implemented for function: ", e.name))

\* differentiate(variable) of the five classes
RECURSIVE SymbolicDifferentiate(_, _)
SymbolicDifferentiate(e, variable) ==
    CASE e.k = "SymbolicNumber" -> Built(SymbolicNumber(Num(0)))
      [] e.k = "SymbolicVariable" ->
               Built(SymbolicNumber(IF e.name = variable THEN Num(1) ELSE Num(0)))
      [] e.k = "SymbolicBinaryOp" ->
               IF e.op # "POWER"
               THEN SymbolicBinaryOpDifferentiate(e,
                        SymbolicDifferentiate(e.kids[1], variable),
                        SymbolicDifferentiate(e.kids[2], variable))
               ELSE IF isConstant(e.kids[2])
               THEN SymbolicPowerDifferentiate(e, SymbolicEvaluate(e.kids[2], <<>>),
                                               SymbolicDifferentiate(e.kids[1], variable))
               ELSE Failed(Error("Differentiation of variable exponents not implemented",
                                 <<>>))
      [] e.k = "SymbolicUnaryOp" ->
               SymbolicUnaryOpDifferentiate(e, SymbolicDifferentiate(e.kids[1], variable))
      [] e.k = "SymbolicFunction" ->
               IF Len(e.kids) # 1
               THEN Failed(Error("Differentiation not implemented for multi-argument functions",
                                 <<>>))
               ELSE SymbolicFunctionDifferentiate(e,
                        SymbolicDifferentiate(e.kids[1], variable))

\* the arithmetic of the constant-folding rules of SymbolicBinaryOp::simplify
FoldedValue(op, leftVal, rightVal) ==
    CASE op = "ADD" -> QAdd(leftVal, rightVal)
      [] op = "SUBTRACT" -> QSub(leftVal, rightVal)
      [] op = "MULTIPLY" -> QMul(leftVal, rightVal)
      [] op = "DIVIDE" -> QDiv(leftVal, rightVal)
      [] op = "POWER" -> QPow(leftVal, rightVal)

\* SymbolicNumber(left->evaluate() op right->evaluate()): the two calls are
\* operands of one expression, so which of two failures escapes is not fixed
FoldConstants(op, leftVal, rightVal) ==
    IF leftVal.st = "ok" /\ rightVal.st = "ok"
    THEN Built(SymbolicNumber(FoldedValue(op, leftVal.val, rightVal.val)))
    ELSE IF leftVal.st = "ok" THEN NumberOf(rightVal)
    ELSE IF rightVal.st = "ok" \/ leftVal = rightVal THEN NumberOf(leftVal)
    ELSE Undecided

\* the last rule of every operator: fold two constants, else rebuild the node
FoldOrRebuild(op, l, r) ==
    IF isConstant(l) /\ isConstant(r)
    THEN FoldConstants(op, SymbolicEvaluate(l, <<>>), SymbolicEvaluate(r, <<>>))
    ELSE Built(SymbolicBinaryOp(op, l, r))

\* the POWER rules without the rule for an exponent that isOne()
SimplifyPowerKeepsOne(l, r) ==
    IF isZero(r) THEN Built(SymbolicNumber(Num(1)))
    ELSE IF isZero(l) THEN Built(SymbolicNumber(Num(0)))
    ELSE IF isOne(l) THEN Built(SymbolicNumber(Num(1)))
    ELSE FoldOrRebuild("POWER", l, r)

\* the ADD rules with the zero side returned in place of the other side
SimplifyAddReturnsZero(l, r) ==
    IF isZero(l) THEN Built(l)
    ELSE IF isZero(r) THEN Built(r)
    ELSE FoldOrRebuild("ADD", l, r)

\* the rules of SymbolicBinaryOp::simplify, l and r being the simplified sides
SimplifyAdd(l, r) ==
    IF isZero(l) THEN Built(r)
    ELSE IF isZero(r) THEN Built(l)
    ELSE FoldOrRebuild("ADD", l, r)

SimplifySubtract(l, r) ==
    IF isZero(r) THEN Built(l)
    ELSE IF isZero(l) THEN Built(SymbolicUnaryOp("NEGATIVE", r))
    ELSE FoldOrRebuild("SUBTRACT", l, r)

SimplifyMultiply(l, r) ==
    IF isZero(l) \/ isZero(r) THEN Built(SymbolicNumber(Num(0)))
    ELSE IF isOne(l) THEN Built(r)
    ELSE IF isOne(r) THEN Built(l)
    ELSE FoldOrRebuild("MULTIPLY", l, r)

SimplifyDivide(l, r) ==
    IF isZero(r) THEN Failed(Error("Division by zero", <<>>))
    ELSE IF isZero(l) THEN Built(SymbolicNumber(Num(0)))
    ELSE IF isOne(r) THEN Built(l)
    ELSE FoldOrRebuild("DIVIDE", l, r)

SimplifyPower(l, r) ==
    IF isZero(r) THEN Built(SymbolicNumber(Num(1)))
    ELSE IF isOne(r) THEN Built(l)
    ELSE IF isZero(l) THEN Built(SymbolicNumber(Num(0)))
    ELSE IF isOne(l) THEN Built(SymbolicNumber(Num(1)))
    ELSE FoldOrRebuild("POWER", l, r)

\* SymbolicBinaryOp::simplify on the outcomes of the two sides' simplify
SymbolicBinaryOpSimplify(op, simplifiedLeft, simplifiedRight) ==
    IF simplifiedLeft.st # "ok" THEN simplifiedLeft
    ELSE IF simplifiedRight.st # "ok" THEN simplifiedRight
    ELSE IF ~(Comparable(simplifiedLeft.node) /\ Comparable(simplifiedRight.node))
    THEN Undecided
    ELSE CASE op = "ADD" -> SimplifyAdd(simplifiedLeft.node, simplifiedRight.node)
           [] op = "SUBTRACT" -> SimplifySubtract(simplifiedLeft.node, simplifiedRight.node)
           [] op = "MULTIPLY" -> SimplifyMultiply(simplifiedLeft.node, simplifiedRight.node)
           [] op = "DIVIDE" -> SimplifyDivide(simplifiedLeft.node, simplifiedRight.node)
           [] op = "POWER" -> SimplifyPower(simplifiedLeft.node, simplifiedRight.node)
           [] OTHER -> Built(SymbolicBinaryOp(op, simplifiedLeft.node, simplifiedRight.node))

\* SymbolicUnaryOp::simplify on the outcome of the operand's simplify; the
\* constant case evaluates the node itself
SymbolicUnaryOpSimplify(e, simplifiedOperand) ==
    IF simplifiedOperand.st # "ok" THEN simplifiedOperand
    ELSE IF e.op = "POSITIVE" THEN simplifiedOperand
    ELSE IF e.op = "NEGATIVE" /\ ~Comparable(simplifiedOperand.node) THEN Undecided
    ELSE IF e.op = "NEGATIVE" /\ isZero(simplifiedOperand.node)
    THEN Built(SymbolicNumber(Num(0)))
    ELSE IF /\ e.op = "NEGATIVE"
            /\ simplifiedOperand.node.k = "SymbolicUnaryOp"
            /\ simplifiedOperand.node.op = "NEGATIVE"
    THEN Built(clone(simplifiedOperand.node.kids[1]))
    ELSE IF isConstant(simplifiedOperand.node)
    THEN NumberOf(SymbolicEvaluate(e, <<>>))
    ELSE Built(SymbolicUnaryOp(e.op, simplifiedOperand.node))

\* one more simplified argument in front of the ones that follow it
PushArgument(first, rest) ==
    IF first.st # "ok" THEN first
    ELSE IF rest.st # "ok" THEN rest
    ELSE Built(<<first.node>> \o rest.node)

AllConstant(args) == \A i \in 1..Len(args) : isConstant(args[i])

\* SymbolicFunction::simplify on the outcome of simplifying the arguments
SymbolicFunctionSimplify(e, simplifiedArgs) ==
    IF simplifiedArgs.st # "ok" THEN simplifiedArgs
    ELSE IF AllConstant(simplifiedArgs.node)
    THEN NumberOf(SymbolicEvaluate(e, <<>>))
    ELSE Built(SymbolicFunction(e.name, simplifiedArgs.node))

\* simplify() of the five classes
RECURSIVE SymbolicSimplify(_), SimplifyArguments(_, _)

SimplifyArguments(args, i) ==
    IF i > Len(args) THEN Built(<<>>)
    ELSE PushArgument(SymbolicSimplify(args[i]), SimplifyArguments(args, i + 1))

SymbolicSimplify(e) ==
    CASE e.k = "SymbolicNumber" -> Built(SymbolicNumber(e.value))
      [] e.k = "SymbolicVariable" -> Built(SymbolicVariable(e.name))
      [] e.k = "SymbolicBinaryOp" ->
               SymbolicBinaryOpSimplify(e.op, SymbolicSimplify(e.kids[1]),
                                        SymbolicSimplify(e.kids[2]))
      [] e.k = "SymbolicUnaryOp" ->
               SymbolicUnaryOpSimplify(e, SymbolicSimplify(e.kids[1]))
      [] e.k = "SymbolicFunction" ->
               SymbolicFunctionSimplify(e, SimplifyArguments(e.kids, 1))

(***************************************************************************)
(* SymbolicEngine: the facade that parses a text into its expression, and  *)
(* the pipeline parse -> convert -> differentiate -> simplify -> toString  *)
(* run on it.                                                              *)
(***************************************************************************)
\* SymbolicEngine::parseFromString(expressionStr), r being the outcome of
\* the local ExpressionParser's parse; parseFromAST converts its tree
SymbolicEngineParseFromStringOutcome(r) ==
    /\ IF r.ok
       THEN /\ expression' = convertASTToSymbolic(r.node)
            /\ pc' = "converted"
       ELSE /\ expression' = expression
            /\ pc' = "rejected"
    /\ derivative' = NotBuilt
    /\ simplified' = NotBuilt
    /\ shown' = <<>>
    /\ integral' = NotBuilt
    /\ solution' = NotBuilt
    /\ factors' = NotBuilt
    /\ again' = NotBuilt
    /\ UNCHANGED <<text, lexer, ast, lastError, hasParsingError, parseReturn, hadTree, escaped,
                   currentToken, exprDone, bindings, evalResult, printed, reparsed>>

SymbolicEngineParseFromString(expressionStr) ==
    SymbolicEngineParseFromStringOutcome(
        ParserParse(expressionStr, NewParser(expressionStr)))

\* SymbolicEngine::differentiate(variable)
SymbolicEngineDifferentiate(variable) ==
    /\ pc' = "differentiated"
    /\ derivative' = IF expression = Null
                     THEN Failed(Error("No expression to differentiate", <<>>))
                     ELSE SymbolicDifferentiate(expression, variable)
    /\ UNCHANGED <<text, lexer, ast, lastError, hasParsingError, parseReturn, hadTree, escaped,
                   currentToken, exprDone, bindings, evalResult, printed, reparsed,
                   expression, simplified, shown, integral, solution,
                   factors, again>>

\* derivative->simplify()
DerivativeSimplify ==
    /\ pc' = "simplified"
    /\ simplified' = SymbolicSimplify(derivative.node)
    /\ UNCHANGED <<text, lexer, ast, lastError, hasParsingError, parseReturn, hadTree, escaped,
                   currentToken, exprDone, bindings, evalResult, printed, reparsed,
                   expression, derivative, shown, integral, solution,
                   factors, again>>

\* simplified->toString()
SimplifiedToString ==
    /\ pc' = "shown"
    /\ shown' = SymbolicToString(simplified.node)
    /\ UNCHANGED <<text, lexer, ast, lastError, hasParsingError, parseReturn, hadTree, escaped,
                   currentToken, exprDone, bindings, evalResult, printed, reparsed,
                   expression, derivative, simplified, integral, solution,
                   factors, again>>

\* one text goes through the pipeline, as far as each step succeeds
NextEngine ==
    \/ pc = "init" /\ SymbolicEngineParseFromString(text)
    \/ pc = "converted" /\ SymbolicEngineDifferentiate(<<"x">>)
    \/ pc = "differentiated" /\ derivative.st = "ok" /\ DerivativeSimplify
    \/ pc = "simplified" /\ simplified.st = "ok" /\ SimplifiedToString

(***************************************************************************)
(* The simplified derivative of a power of x and of sin(x).                *)
(***************************************************************************)
MaxExponent == 24

\* the literal exponents n >= 2, whole and half, with the numbers they denote
Exponents ==
    {[lit |-> IntDigits(n), val |-> Num(n)] : n \in 2..MaxExponent}
    \cup {[lit |-> IntDigits(n) \o <<".", "5">>, val |-> Q(2 * n + 1, 2)] :
             n \in 2..MaxExponent}

PowerText(lit) == <<"x", "^">> \o lit

DerivativeExamples == {<<"x", "^", "2">>, <<"s", "i", "n", "(", "x", ")">>}

DerivativeInputs == DerivativeExamples \cup {PowerText(e.lit) : e \in Exponents}

InitDerivative == Constructed /\ text \in DerivativeInputs

SpecDerivative == InitDerivative /\ [][NextEngine]_vars

\* the product of x^(n-1) and n, x^1 being x itself
PowerRuleResult(n) ==
    SymbolicBinaryOp("MULTIPLY",
        IF n = Num(2) THEN SymbolicVariable(<<"x">>)
        ELSE SymbolicBinaryOp("POWER", SymbolicVariable(<<"x">>),
                              SymbolicNumber(QSub(n, Num(1)))),
        SymbolicNumber(n))

\* a product with a factor 1, a power with exponent 1 or a sum with a term 0
\* somewhere in the tree
RECURSIVE Residual(_)
Residual(e) ==
    \/ /\ e.k = "SymbolicBinaryOp"
       /\ \/ e.op = "MULTIPLY" /\ (isOne(e.kids[1]) \/ isOne(e.kids[2]))
          \/ e.op = "POWER" /\ isOne(e.kids[2])
          \/ e.op = "ADD" /\ (isZero(e.kids[1]) \/ isZero(e.kids[2]))
    \/ \E i \in 1..Len(e.kids) : Residual(e.kids[i])

\* every step of the pipeline has succeeded so far
PipelineSucceeds ==
    /\ pc # "rejected"
    /\ pc = "differentiated" => derivative.st = "ok"
    /\ pc = "simplified" => simplified.st = "ok"

\* C9: through parse, convert, differentiate("x"), simplify and toString,
\* "x^2" comes out as "2x" and "sin(x)" as "cos(x)"; for every literal
\* n >= 2 the simplified derivative of x^n is the product of x^(n-1) and n,
\* with no factor 1, exponent 1 or term 0 left anywhere in the tree.
SimplifiedDerivative ==
    /\ text \in DerivativeInputs => PipelineSucceeds
    /\ pc = "shown" /\ text = <<"x", "^", "2">> => shown = <<"2", "x">>
    /\ pc = "shown" /\ text = <<"s", "i", "n", "(", "x", ")">> =>
           shown = <<"c", "o", "s", "(", "x", ")">>
    /\ \A e \in Exponents :
           pc \in {"simplified", "shown"} /\ text = PowerText(e.lit) =>
               /\ simplified = Built(PowerRuleResult(e.val))
               /\ ~Residual(simplified.node)

SimplifiedDerivativeWitness ==
    /\ pc = "shown"
    /\ text = <<"x", "^", "3">>
    /\ derivative.node.kids[2] = SymbolicBinaryOp("MULTIPLY", SymbolicNumber(Num(3)),
                                                  SymbolicNumber(Num(1)))
    /\ simplified.node = PowerRuleResult(Num(3))
    /\ shown = <<"3", "(", "(", "x", " ", "^", " ", "2", ")", ")">>

(***************************************************************************)
(* The chain rule on one-argument calls written in the text.               *)
(***************************************************************************)
MaxArgumentLexemes == 3

ArgumentLexemes == {<<"x">>, <<"y">>, <<"2">>, <<"+">>, <<"*">>, <<"^">>}

ChainRuleInputs ==
    {f \o <<"(">> \o u \o <<")">> :
        f \in FunctionNames, u \in TextsOver(ArgumentLexemes, MaxArgumentLexemes)}

InitChainRule == Constructed /\ text \in ChainRuleInputs

SpecChainRule == InitChainRule /\ [][NextEngine]_vars

\* the OpType of the unary operation a function name stands for
UnaryOpOf(functionName) ==
    CASE functionName = Chars("sin") -> "SIN"
      [] functionName = Chars("cos") -> "COS"
      [] functionName = Chars("tan") -> "TAN"
      [] functionName = Chars("ln") -> "LN"
      [] functionName = Chars("sqrt") -> "SQRT"

\* the forms listed for tan, ln and sqrt, u the argument and du its derivative
ChainRuleForm(functionName, u, du) ==
    CASE functionName = Chars("tan") ->
               SymbolicBinaryOp("MULTIPLY",
                   SymbolicBinaryOp("DIVIDE", SymbolicNumber(Num(1)),
                       SymbolicBinaryOp("POWER", SymbolicUnaryOp("COS", u),
                                        SymbolicNumber(Num(2)))),
                   du)
      [] functionName = Chars("ln") ->
               SymbolicBinaryOp("MULTIPLY",
                   SymbolicBinaryOp("DIVIDE", SymbolicNumber(Num(1)), u), du)
      [] functionName = Chars("sqrt") ->
               SymbolicBinaryOp("MULTIPLY",
                   SymbolicBinaryOp("DIVIDE", SymbolicNumber(Num(1)),
                       SymbolicBinaryOp("MULTIPLY", SymbolicNumber(Num(2)),
                                        SymbolicUnaryOp("SQRT", u))),
                   du)

\* a one-argument call of sin, cos, tan, ln or sqrt whose argument can be
\* differentiated has just been differentiated
CallDifferentiated ==
    /\ pc = "differentiated"
    /\ expression.k = "SymbolicFunction"
    /\ expression.name \in {Chars("sin"), Chars("cos"), Chars("tan"), Chars("ln"),
                            Chars("sqrt")}
    /\ Len(expression.kids) = 1
    /\ SymbolicDifferentiate(expression.kids[1], <<"x">>).st = "ok"

\* C10: differentiate succeeds on every one-argument call of sin, cos, tan,
\* ln or sqrt written in the text, returns the chain-rule form listed for
\* tan, ln and sqrt, and returns what the unary operation of the same
\* function on the same argument differentiates to.
CallsFollowChainRule ==
    CallDifferentiated =>
        /\ derivative.st = "ok"
        /\ derivative = SymbolicDifferentiate(
               SymbolicUnaryOp(UnaryOpOf(expression.name), expression.kids[1]), <<"x">>)
        /\ expression.name \in {Chars("tan"), Chars("ln"), Chars("sqrt")} =>
               derivative.node =
                   ChainRuleForm(expression.name, expression.kids[1],
                       SymbolicDifferentiate(expression.kids[1], <<"x">>).node)

(***************************************************************************)
(* The power rule: exponents with and without variables.                   *)
(***************************************************************************)
MaxPowerLexemes == 2

PowerLexemes == {<<"x">>, <<"y">>, <<"2">>, <<"0">>, <<"+">>, <<"-">>, <<"/">>, <<"^">>}

\* (base)^(exponent), both sides from the lexemes
PowerInputs(len) ==
    {<<"(">> \o b \o <<")", "^", "(">> \o e \o <<")">> :
        b \in TextsOver(PowerLexemes, len),
        e \in TextsOver(PowerLexemes, len)}

InitPowerRule == Constructed /\ text \in PowerInputs(MaxPowerLexemes)

SpecPowerRule == InitPowerRule /\ [][NextEngine]_vars

\* the names of the Variable nodes of a tree
RECURSIVE VariablesOf(_)
VariablesOf(e) ==
    (IF e.k = "SymbolicVariable" THEN {e.name} ELSE {})
    \cup UNION {VariablesOf(e.kids[i]) : i \in 1..Len(e.kids)}

\* a power has just been differentiated
PowerDifferentiated ==
    /\ pc = "differentiated"
    /\ expression.k = "SymbolicBinaryOp"
    /\ expression.op = "POWER"

\* base^(n-1) * (n * dbase), on the base itself
PowerRuleForm(base, n, dbase) ==
    SymbolicBinaryOp("MULTIPLY",
        SymbolicBinaryOp("POWER", base, SymbolicNumber(QSub(n, Num(1)))),
        SymbolicBinaryOp("MULTIPLY", SymbolicNumber(n), dbase))

\* C11: differentiate on a power fails, returning no tree, whenever the
\* exponent holds a variable, whichever variable it is; when the exponent
\* is variable-free with value n (and the base can be differentiated) the
\* result is the product of base^(n-1) and n * d(base), on a copy of base.
PowerNeedsConstantExponent ==
    PowerDifferentiated =>
        /\ VariablesOf(expression.kids[2]) # {} =>
               derivative.st = "err" /\ derivative.node = Null
        /\ /\ VariablesOf(expression.kids[2]) = {}
           /\ SymbolicEvaluate(expression.kids[2], <<>>).st = "ok"
           /\ SymbolicDifferentiate(expression.kids[1], <<"x">>).st = "ok"
           => derivative =
                  Built(PowerRuleForm(expression.kids[1],
                            SymbolicEvaluate(expression.kids[2], <<>>).val,
                            SymbolicDifferentiate(expression.kids[1], <<"x">>).node))

PowerRuleWitness ==
    /\ pc = "differentiated"
    /\ text = <<"(", "x", ")", "^", "(", "y", ")">>
    /\ expression = SymbolicBinaryOp("POWER", SymbolicVariable(<<"x">>),
                                     SymbolicVariable(<<"y">>))
    /\ derivative.st = "err"
    /\ derivative.err.msg = "Differentiation of variable exponents not implemented"

(***************************************************************************)
(* integrate of the symbolic classes.  Where the code reads a pointer in   *)
(* one argument of a call and moves from it in another, the order in       *)
(* which the build evaluates the arguments decides between the tree and a  *)
(* null dereference: outcome "crash".                                      *)
(***************************************************************************)
Crashed == [st |-> "crash", node |-> Null, err |-> NoError]

ArgumentOrders == {"leftToRight", "rightToLeft"}

\* operand->toString() == variable on the text str of the operand: "yes",
\* "no", or "unknown" for a text the model does not track
OperandIs(str, variable) ==
    IF ~IsTrackedText(str) THEN "unknown"
    ELSE IF str = variable THEN "yes"
    ELSE "no"

\* the nodes whose integrate compares the text of an operand with the
\* variable, and that operand
ComparesOperand(e) ==
    \/ e.k = "SymbolicBinaryOp" /\ e.op \in {"DIVIDE", "POWER"}
    \/ e.k = "SymbolicUnaryOp" /\ e.op \in {"SIN", "COS", "LN"}
    \/ e.k = "SymbolicFunction" /\ Len(e.kids) = 1

ComparedOperand(e) ==
    IF e.k = "SymbolicBinaryOp" /\ e.op = "DIVIDE" THEN e.kids[2] ELSE e.kids[1]

\* ADD and SUBTRACT of SymbolicBinaryOp::integrate, the left side first
IntegrateBoth(op, leftIntegral, rightIntegral) ==
    IF leftIntegral.st # "ok" THEN leftIntegral
    ELSE IF rightIntegral.st # "ok" THEN rightIntegral
    ELSE Built(SymbolicBinaryOp(op, leftIntegral.node, rightIntegral.node))

\* c * (integral of f)
IntegrateConstantTimes(c, rightIntegral) ==
    IF rightIntegral.st # "ok" THEN rightIntegral
    ELSE Built(SymbolicBinaryOp("MULTIPLY", c, rightIntegral.node))

\* (integral of f) * c
IntegrateTimesConstant(leftIntegral, c) ==
    IF leftIntegral.st # "ok" THEN leftIntegral
    ELSE Built(SymbolicBinaryOp("MULTIPLY", leftIntegral.node, c))

\* the POWER case without the branch for the exponent -1
IntegratePowerNoLogarithm(variable, expVal) ==
    IF expVal.st # "ok" THEN NumberOf(expVal)
    ELSE IF ~IsTracked(expVal.val) THEN Undecided
    ELSE Built(SymbolicBinaryOp("DIVIDE",
                   SymbolicBinaryOp("POWER", SymbolicVariable(variable),
                                    SymbolicNumber(QAdd(expVal.val, Num(1)))),
                   SymbolicNumber(QAdd(expVal.val, Num(1)))))

\* the POWER case on variable^n, expVal being the outcome of right->evaluate()
IntegratePower(variable, expVal) ==
    IF expVal.st # "ok" THEN NumberOf(expVal)
    ELSE IF ~IsTracked(expVal.val) THEN Undecided
    ELSE IF expVal.val = Num(-1)
    THEN Built(SymbolicUnaryOp("LN", SymbolicVariable(variable)))
    ELSE Built(SymbolicBinaryOp("DIVIDE",
                   SymbolicBinaryOp("POWER", SymbolicVariable(variable),
                                    SymbolicNumber(QAdd(expVal.val, Num(1)))),
                   SymbolicNumber(QAdd(expVal.val, Num(1)))))

\* x*ln(x) - x built as makeSymbolicBinaryOp(MULTIPLY, x->clone(),
\* makeSymbolicUnaryOp(LN, std::move(x))): x is read and moved from in the
\* arguments of one call
IntegrateLogarithm(variable, order) ==
    IF order = "leftToRight"
    THEN Built(SymbolicBinaryOp("SUBTRACT",
                   SymbolicBinaryOp("MULTIPLY", SymbolicVariable(variable),
                       SymbolicUnaryOp("LN", SymbolicVariable(variable))),
                   SymbolicVariable(variable)))
    ELSE Crashed

\* the sin, cos and ln cases of SymbolicUnaryOp::integrate and of
\* SymbolicFunction::integrate on an operand that prints as the variable
IntegrateOfVariable(kind, variable, order) ==
    CASE kind = "SIN" ->
               Built(SymbolicUnaryOp("NEGATIVE",
                         SymbolicUnaryOp("COS", SymbolicVariable(variable))))
      [] kind = "COS" -> Built(SymbolicUnaryOp("SIN", SymbolicVariable(variable)))
      [] kind = "LN" -> IntegrateLogarithm(variable, order)

\* SymbolicBinaryOp::integrate, case DIVIDE; the right side is compared
\* only under a variable-free left side
IntegrateDivide(e, variable, rightIs) ==
    IF ~isConstant(e.kids[1])
    THEN Failed(Error("Complex division integration not implemented", <<>>))
    ELSE IF rightIs = "unknown" THEN Undecided
    ELSE IF rightIs = "yes"
    THEN Built(SymbolicBinaryOp("MULTIPLY", clone(e.kids[1]),
                   SymbolicUnaryOp("LN", SymbolicVariable(variable))))
    ELSE Failed(Error("Complex division integration not implemented", <<>>))

\* SymbolicBinaryOp::integrate, case POWER
IntegratePowerCase(e, variable, leftIs) ==
    IF leftIs = "unknown" THEN Undecided
    ELSE IF leftIs = "yes" /\ isConstant(e.kids[2])
    THEN IntegratePower(variable, SymbolicEvaluate(e.kids[2], <<>>))
    ELSE Failed(Error("Complex power integration not implemented", <<>>))

\* the text of the exception of SymbolicUnaryOp::integrate for an operand
\* that is not the variable
ComplexIntegration(op) ==
    CASE op = "SIN" -> "Complex sine integration not implemented"
      [] op = "COS" -> "Complex cosine integration not implemented"
      [] op = "LN" -> "Complex logarithm integration not implemented"

\* SymbolicUnaryOp::integrate, cases SIN, COS and LN
IntegrateUnaryOfOperand(e, variable, order, operandIs) ==
    IF operandIs = "unknown" THEN Undecided
    ELSE IF operandIs = "yes" THEN IntegrateOfVariable(e.op, variable, order)
    ELSE Failed(Error(ComplexIntegration(e.op), <<>>))

\* SymbolicFunction::integrate of a one-argument call
IntegrateFunctionOfArgument(e, variable, order, argumentIs) ==
    IF e.name \notin {<<"s", "i", "n">>, <<"c", "o", "s">>, <<"l", "n">>}
    THEN Failed(Error("Integration not implemented for function: ", e.name))
    ELSE IF argumentIs = "unknown" THEN Undecided
    ELSE IF argumentIs = "yes"
    THEN IntegrateOfVariable(IF e.name = <<"s", "i", "n">> THEN "SIN"
                             ELSE IF e.name = <<"c", "o", "s">> THEN "COS" ELSE "LN",
                             variable, order)
    ELSE Failed(Error("Integration not implemented for function: ", e.name))

\* integrate of a node that compares an operand with the variable,
\* operandIs being the outcome of the comparison
IntegrateCompared(e, variable, order, operandIs) ==
    CASE e.k = "SymbolicBinaryOp" /\ e.op = "DIVIDE" -> IntegrateDivide(e, variable, operandIs)
      [] e.k = "SymbolicBinaryOp" /\ e.op = "POWER" -> IntegratePowerCase(e, variable, operandIs)
      [] e.k = "SymbolicUnaryOp" -> IntegrateUnaryOfOperand(e, variable, order, operandIs)
      [] e.k = "SymbolicFunction" -> IntegrateFunctionOfArgument(e, variable, order, operandIs)

\* -(integral of the operand)
IntegrateNegative(operandIntegral) ==
    IF operandIntegral.st # "ok" THEN operandIntegral
    ELSE Built(SymbolicUnaryOp("NEGATIVE", operandIntegral.node))

\* integrate of one node: operandIs is the outcome of the comparison of its
\* operand with the variable, leftIntegral and rightIntegral the outcomes of
\* integrate on its first and second child; each is used only where the
\* code computes it
IntegrateNode(e, variable, order, operandIs, leftIntegral, rightIntegral) ==
    IF ComparesOperand(e)
    THEN IntegrateCompared(e, variable, order, operandIs)
    ELSE
    CASE e.k = "SymbolicNumber" ->
               Built(SymbolicBinaryOp("MULTIPLY", SymbolicNumber(e.value),
                                      SymbolicVariable(variable)))
      [] e.k = "SymbolicVariable" ->
               IF e.name = variable
               THEN Built(SymbolicBinaryOp("DIVIDE",
                              SymbolicBinaryOp("POWER", SymbolicVariable(variable),
                                               SymbolicNumber(Num(2))),
                              SymbolicNumber(Num(2))))
               ELSE Built(SymbolicBinaryOp("MULTIPLY", SymbolicVariable(e.name),
                                           SymbolicVariable(variable)))
      [] e.k = "SymbolicBinaryOp" ->
               (CASE e.op \in {"ADD", "SUBTRACT"} ->
                        IntegrateBoth(e.op, leftIntegral, rightIntegral)
                 [] e.op = "MULTIPLY" ->
                        IF isConstant(e.kids[1]) /\ ~isConstant(e.kids[2])
                        THEN IntegrateConstantTimes(clone(e.kids[1]), rightIntegral)
                        ELSE IF ~isConstant(e.kids[1]) /\ isConstant(e.kids[2])
                        THEN IntegrateTimesConstant(leftIntegral, clone(e.kids[2]))
                        ELSE Failed(Error("Integration by parts not implemented for general multiplication",
                                          <<>>)))
      [] e.k = "SymbolicUnaryOp" ->
               (CASE e.op = "POSITIVE" -> leftIntegral
                 [] e.op = "NEGATIVE" -> IntegrateNegative(leftIntegral)
                 [] OTHER -> Failed(Error("Integration not implemented for this unary operation",
                                          <<>>)))
      [] e.k = "SymbolicFunction" ->
               Failed(Error("Integration not implemented for multi-argument functions",
                            <<>>))

\* integrate(variable) of the five classes; the text of the compared operand
\* is computed once for the node
RECURSIVE SymbolicIntegrate(_, _, _)
SymbolicIntegrate(e, variable, order) ==
    CHOOSE outcome \in
        {IntegrateNode(e, variable, order, operandIs,
                       SymbolicIntegrate(e.kids[1], variable, order),
                       SymbolicIntegrate(e.kids[2], variable, order)) :
            operandIs \in {IF ComparesOperand(e)
                           THEN OperandIs(SymbolicToString(ComparedOperand(e)), variable)
                           ELSE "no"}} : TRUE

\* the tree integrate is called on: the engine's expression, and after that
\* the tree the first call returned
Integrand == IF pc = "converted" THEN expression ELSE integral.node

\* the outcome of the first call is the integral, that of the second is kept
\* beside it
IntegrateOutcome(outcome) ==
    /\ IF pc = "converted"
       THEN pc' = "integrated" /\ integral' = outcome /\ again' = again
       ELSE pc' = "reintegrated" /\ again' = outcome /\ integral' = integral
    /\ UNCHANGED <<text, lexer, ast, lastError, hasParsingError, parseReturn, hadTree, escaped,
                   currentToken, exprDone, bindings, evalResult, printed, reparsed,
                   expression, derivative, simplified, shown, solution, factors>>

\* SymbolicEngine::integrate(variable), and integrate(variable) of the tree
\* it returned; order is the argument evaluation order of the build
SymbolicEngineIntegrate(variable, order) ==
    \E outcome \in {IF Integrand = Null
                    THEN Failed(Error("No expression to integrate", <<>>))
                    ELSE SymbolicIntegrate(Integrand, variable, order)} :
        IntegrateOutcome(outcome)

\* integral->simplify()
IntegralSimplify ==
    /\ pc' = "simplified"
    /\ simplified' = SymbolicSimplify(integral.node)
    /\ UNCHANGED <<text, lexer, ast, lastError, hasParsingError, parseReturn, hadTree, escaped,
                   currentToken, exprDone, bindings, evalResult, printed, reparsed,
                   expression, derivative, shown, integral, solution,
                   factors, again>>

\* one text is parsed and integrated by x; the integral is simplified and
\* shown, or integrated again
NextIntegrate ==
    \/ pc = "init" /\ SymbolicEngineParseFromString(text)
    \/ /\ pc = "converted" \/ (pc = "integrated" /\ integral.st = "ok")
       /\ \E order \in ArgumentOrders : SymbolicEngineIntegrate(<<"x">>, order)
    \/ pc = "integrated" /\ integral.st = "ok" /\ IntegralSimplify
    \/ pc = "simplified" /\ simplified.st = "ok" /\ SimplifiedToString

(***************************************************************************)
(* Integration: products, powers, quotients and calls.                     *)
(***************************************************************************)
MaxIntegrateLexemes == 3

IntegrateLexemes == {<<"x">>, <<"y">>, <<"2">>, <<"1">>, <<"0">>, <<"+">>, <<"-">>, <<"*">>}

\* the texts u is put into: alone, as a factor, as an exponent of x, as a
\* numerator over x, under x, and as the argument of a call
IntegrateShapes(u) ==
    { u,
      <<"(">> \o u \o <<")", "*", "x">>,
      <<"(">> \o u \o <<")", "*", "3">>,
      <<"2", "*", "(">> \o u \o <<")">>,
      <<"x", "*", "s", "i", "n", "(">> \o u \o <<")">>,
      <<"x", "^", "(">> \o u \o <<")">>,
      <<"(">> \o u \o <<")", "^", "2">>,
      <<"(">> \o u \o <<")", "/", "x">>,
      <<"1", "/", "(">> \o u \o <<")">>,
      <<"s", "i", "n", "(">> \o u \o <<")">>,
      <<"c", "o", "s", "(">> \o u \o <<")">>,
      <<"l", "n", "(">> \o u \o <<")">>,
      <<"t", "a", "n", "(">> \o u \o <<")">>,
      <<"m", "a", "x", "(">> \o u \o <<",", "x", ")">> }

IntegrateInputs(len) ==
    UNION {IntegrateShapes(u) : u \in TextsOver(IntegrateLexemes, len)}

InitIntegrate == Constructed /\ text \in IntegrateInputs(MaxIntegrateLexemes)

SpecIntegrate == InitIntegrate /\ [][NextIntegrate]_vars

\* the engine holds a product and integrate has returned or thrown
ProductIntegrated ==
    /\ pc = "integrated"
    /\ expression.k = "SymbolicBinaryOp"
    /\ expression.op = "MULTIPLY"
    /\ integral.st \in {"ok", "err"}

\* c variable-free and f integrable: the tree of the integral of f
IntegralOfOther(c, f) ==
    IF isConstant(c) /\ SymbolicIntegrate(f, <<"x">>, "leftToRight").st = "ok"
    THEN {SymbolicIntegrate(f, <<"x">>, "leftToRight").node}
    ELSE {}

\* the results the rule allows for l*r: the constant times the integral of
\* the other operand, the operands in the order of the product
ConstantPulledOut(l, r) ==
    {SymbolicBinaryOp("MULTIPLY", l, i) : i \in IntegralOfOther(l, r)}
    \cup {SymbolicBinaryOp("MULTIPLY", i, r) : i \in IntegralOfOther(r, l)}

\* C12: integrating a product succeeds exactly when one operand is
\* variable-free and the other operand integrates, and then returns the
\* constant times the integral of the other operand; with no variable-free
\* operand it fails with an error.
ProductsPullConstantOut ==
    ProductIntegrated =>
        /\ integral.st = "ok"
               <=> ConstantPulledOut(expression.kids[1], expression.kids[2]) # {}
        /\ integral.st = "ok"
               => integral.node \in ConstantPulledOut(expression.kids[1], expression.kids[2])
        /\ ~isConstant(expression.kids[1]) /\ ~isConstant(expression.kids[2])
               => integral.st = "err" /\ integral.node = Null

(***************************************************************************)
(* Integration of x, of powers of x and of constants over x.               *)
(***************************************************************************)
\* some quotient in the tree has the literal 0 as its divisor
RECURSIVE DividesByLiteralZero(_)
DividesByLiteralZero(e) ==
    \/ /\ e.k = "SymbolicBinaryOp"
       /\ e.op = "DIVIDE"
       /\ e.kids[2].k = "SymbolicNumber"
       /\ e.kids[2].value = Num(0)
    \/ \E i \in 1..Len(e.kids) : DividesByLiteralZero(e.kids[i])

IsVariableX(e) == e.k = "SymbolicVariable" /\ e.name = <<"x">>

LnOfX == SymbolicUnaryOp("LN", SymbolicVariable(<<"x">>))

\* x^n with a variable-free n that evaluates to a tracked number
IsPowerOfX(e) ==
    /\ e.k = "SymbolicBinaryOp"
    /\ e.op = "POWER"
    /\ IsVariableX(e.kids[1])
    /\ isConstant(e.kids[2])
    /\ SymbolicEvaluate(e.kids[2], <<>>).st = "ok"
    /\ IsTracked(SymbolicEvaluate(e.kids[2], <<>>).val)

\* c / x with a variable-free c
IsConstantOverX(e) ==
    /\ e.k = "SymbolicBinaryOp"
    /\ e.op = "DIVIDE"
    /\ isConstant(e.kids[1])
    /\ IsVariableX(e.kids[2])

\* x^(n+1) / (n+1)
PowerRaised(n) ==
    SymbolicBinaryOp("DIVIDE",
        SymbolicBinaryOp("POWER", SymbolicVariable(<<"x">>), SymbolicNumber(QAdd(n, Num(1)))),
        SymbolicNumber(QAdd(n, Num(1))))

\* what integrate by x returned for the tree e, by the three rules
ClosedForm(e, outcome) ==
    /\ IsVariableX(e) => outcome = Built(PowerRaised(Num(1)))
    /\ IsPowerOfX(e) =>
           /\ outcome = Built(IF SymbolicEvaluate(e.kids[2], <<>>).val = Num(-1)
                              THEN LnOfX
                              ELSE PowerRaised(SymbolicEvaluate(e.kids[2], <<>>).val))
           /\ ~DividesByLiteralZero(outcome.node)
    /\ IsConstantOverX(e) =>
           outcome = Built(SymbolicBinaryOp("MULTIPLY", e.kids[1], LnOfX))

\* C13: integrating x^n by x, n variable-free, returns ln(x) when n
\* evaluates to -1 and x^(n+1)/(n+1) otherwise, never a division by a
\* literal zero; integrating x returns x^2/2; integrating c/x with a
\* constant c returns c*ln(x), which simplifies to ln(x) when c is 1.
IntegralsHaveClosedForm ==
    /\ pc \in {"integrated", "simplified", "shown"} => ClosedForm(expression, integral)
    /\ pc = "reintegrated" => ClosedForm(integral.node, again)
    /\ /\ pc \in {"simplified", "shown"}
       /\ IsConstantOverX(expression)
       /\ expression.kids[1] = SymbolicNumber(Num(1))
       => simplified = Built(LnOfX)

\* x^n with n evaluating to -1 has been integrated into ln(x)
IntegralsHaveClosedFormWitness ==
    /\ pc = "integrated"
    /\ IsPowerOfX(expression)
    /\ SymbolicEvaluate(expression.kids[2], <<>>).val = Num(-1)
    /\ integral = Built(LnOfX)

(***************************************************************************)
(* Integration of sin, cos and ln.                                         *)
(***************************************************************************)
\* a call of sin, cos or ln with one argument, or the unary form of one
IsSinCosLn(e) ==
    \/ /\ e.k = "SymbolicFunction"
       /\ Len(e.kids) = 1
       /\ e.name \in {<<"s", "i", "n">>, <<"c", "o", "s">>, <<"l", "n">>}
    \/ e.k = "SymbolicUnaryOp" /\ e.op \in {"SIN", "COS", "LN"}

NotImplementedMessages ==
    {"Complex sine integration not implemented",
     "Complex cosine integration not implemented",
     "Complex logarithm integration not implemented",
     "Integration not implemented for function: "}

\* integrate by x returned or threw on the tree e
OnlyOfBareVariable(e, outcome) ==
    IsSinCosLn(e) /\ outcome.st \in {"ok", "err"} =>
        /\ outcome.st = "ok" => IsVariableX(e.kids[1])
        /\ ~IsVariableX(e.kids[1]) =>
               outcome.st = "err" /\ outcome.err.msg \in NotImplementedMessages

\* C14: integrating sin, cos or ln, as a call or in unary form, succeeds
\* only when the operand is the single node Variable(x); on every other
\* operand, 1*x, x*1 and x+0 among them, it fails with a not-implemented
\* error.
SinCosLnOnlyOfBareVariable ==
    /\ pc = "integrated" => OnlyOfBareVariable(expression, integral)
    /\ pc = "reintegrated" => OnlyOfBareVariable(integral.node, again)

(***************************************************************************)
(* Simplification through the engine, and of the tree it returned.         *)
(***************************************************************************)
\* the tree simplify is called on: the engine's expression, and after that
\* the tree the first call returned
Simplificand == IF pc = "converted" THEN expression ELSE simplified.node

\* the outcome of the first call is the simplified tree, that of the second
\* is kept beside it
SimplifyOutcome(outcome) ==
    /\ IF pc = "converted"
       THEN pc' = "simplified" /\ simplified' = outcome /\ again' = again
       ELSE pc' = "resimplified" /\ again' = outcome /\ simplified' = simplified
    /\ UNCHANGED <<text, lexer, ast, lastError, hasParsingError, parseReturn, hadTree, escaped,
                   currentToken, exprDone, bindings, evalResult, printed, reparsed,
                   expression, derivative, shown, integral, solution, factors>>

\* SymbolicEngine::simplify(), and simplify() of the tree it returned
SymbolicEngineSimplify ==
    \E outcome \in {IF Simplificand = Null
                    THEN Failed(Error("No expression to simplify", <<>>))
                    ELSE SymbolicSimplify(Simplificand)} :
        SimplifyOutcome(outcome)

\* one text is parsed and simplified, and the result simplified again
NextSimplify ==
    \/ pc = "init" /\ SymbolicEngineParseFromString(text)
    \/ /\ pc = "converted" \/ (pc = "simplified" /\ simplified.st = "ok")
       /\ SymbolicEngineSimplify

MaxSimplifyLexemes == 2

SimplifyLexemes ==
    {<<"x">>, <<"y">>, <<"0">>, <<"1">>, <<"2">>, <<"+">>, <<"-">>, <<"*">>, <<"/">>, <<"^">>}

SimplifyOperators == {<<"+">>, <<"-">>, <<"*">>, <<"/">>, <<"^">>}

SimplifyRightOperands ==
    {<<"x">>, <<"0">>, <<"1">>, <<"2">>, <<"(", "-", "x", ")">>,
     <<"(", "-", "1", ")">>, <<"(", "0", "-", "2", ")">>}

\* a text of the lexemes, an operator and a right operand
SimplifyInputs ==
    {a \o op \o b : a \in TextsOver(SimplifyLexemes, MaxSimplifyLexemes),
                    op \in SimplifyOperators, b \in SimplifyRightOperands}

InitSimplify == Constructed /\ text \in SimplifyInputs

SpecSimplify == InitSimplify /\ [][NextSimplify]_vars

\* simplify succeeded on the engine's expression and was applied again
Resimplified == pc = "resimplified" /\ simplified.st = "ok"

\* C15: simplification is idempotent: where simplify succeeds, simplifying
\* its result succeeds and returns a structurally identical tree.
SimplifyIsIdempotent ==
    Resimplified /\ again.st # "unknown" => again = simplified

(***************************************************************************)
(* The variables of a simplified tree.                                     *)
(***************************************************************************)
\* no product, quotient or power anywhere in the tree
RECURSIVE HasNoProduct(_)
HasNoProduct(e) ==
    /\ ~(e.k = "SymbolicBinaryOp" /\ e.op \in {"MULTIPLY", "DIVIDE", "POWER"})
    /\ \A i \in 1..Len(e.kids) : HasNoProduct(e.kids[i])

\* simplify returned a tree for the tree e
SameVariables(e, outcome) ==
    outcome.st = "ok" => VariablesOf(outcome.node) = VariablesOf(e)

NoNewVariables(e, outcome) ==
    outcome.st = "ok" =>
        /\ VariablesOf(outcome.node) \subseteq VariablesOf(e)
        /\ HasNoProduct(e) => VariablesOf(outcome.node) = VariablesOf(e)

\* C16 as stated: where simplify succeeds, the variable names of the
\* simplified tree are exactly those of the tree it was given.
SimplifyKeepsVariableSet ==
    /\ pc \in {"simplified", "resimplified"} => SameVariables(expression, simplified)
    /\ pc = "resimplified" => SameVariables(simplified.node, again)

\* C16 amended: where simplify succeeds, every variable name of the
\* simplified tree occurs in the tree it was given, and the two sets are
\* equal when that tree has no product, quotient or power.
SimplifyAddsNoVariable ==
    /\ pc \in {"simplified", "resimplified"} => NoNewVariables(expression, simplified)
    /\ pc = "resimplified" => NoNewVariables(simplified.node, again)

\* a sum or difference with variables was rewritten by simplify
SimplifyAddsNoVariableWitness ==
    /\ pc = "simplified"
    /\ simplified.st = "ok"
    /\ HasNoProduct(expression)
    /\ VariablesOf(expression) # {}
    /\ simplified.node # expression

(***************************************************************************)
(* Constant folding.                                                       *)
(***************************************************************************)
IsTrackedNumber(outcome) ==
    /\ outcome.st = "ok"
    /\ outcome.node.k = "SymbolicNumber"
    /\ IsTracked(outcome.node.value)

\* every variable-free subtree is a single Number node
RECURSIVE ConstantsAreFolded(_)
ConstantsAreFolded(e) ==
    /\ isConstant(e) => e.k = "SymbolicNumber"
    /\ \A i \in 1..Len(e.kids) : ConstantsAreFolded(e.kids[i])

\* simplify of the binary operation e returned the number it denotes, l and
\* r being the outcomes of simplify on its two sides
FoldsTo(e, l, r, outcome) ==
    /\ IsTrackedNumber(l)
    /\ IsTrackedNumber(r)
    /\ e.op = "DIVIDE" => r.node.value # Num(0)
    /\ IsTracked(FoldedValue(e.op, l.node.value, r.node.value))
    => outcome = Built(SymbolicNumber(FoldedValue(e.op, l.node.value, r.node.value)))

\* C17: simplify of a binary operation whose simplified operands are both
\* literal Numbers returns one Number holding the arithmetic result, for
\* every operator and all operand values but a zero divisor; so every
\* variable-free subtree of a simplified tree is a single Number.
ConstantOperandsAreFolded ==
    pc = "simplified" =>
        /\ expression.k = "SymbolicBinaryOp" =>
               FoldsTo(expression, SymbolicSimplify(expression.kids[1]),
                       SymbolicSimplify(expression.kids[2]), simplified)
        /\ simplified.st = "ok" => ConstantsAreFolded(simplified.node)

(***************************************************************************)
(* solve and factor of the engine.                                         *)
(***************************************************************************)
\* catch (const std::exception& e) { throw std::runtime_error(prefix + e.what()); }
RethrownAs(prefix, err) ==
    [err EXCEPT !.class = "std::runtime_error", !.msg = prefix \o @]

\* the body of the try block with the constant of a sum left unnegated
SolveTreeKeepsSign(e) ==
    IF /\ e.k = "SymbolicBinaryOp"
       /\ e.op \in {"ADD", "SUBTRACT"}
       /\ isConstant(e.kids[1])
    THEN Built(SymbolicBinaryOp("DIVIDE", e.kids[1], e.kids[2]))
    ELSE Failed(Error("Complex equation solving not implemented", <<>>))

\* the body of the try block of SymbolicEngine::solve on the simplified tree
SolveTree(e) ==
    IF /\ e.k = "SymbolicBinaryOp"
       /\ e.op \in {"ADD", "SUBTRACT"}
       /\ isConstant(e.kids[1])
    THEN IF e.op = "ADD"
         THEN Built(SymbolicBinaryOp("DIVIDE",
                        SymbolicUnaryOp("NEGATIVE", e.kids[1]), e.kids[2]))
         ELSE Built(SymbolicBinaryOp("DIVIDE", e.kids[1], e.kids[2]))
    ELSE Failed(Error("Complex equation solving not implemented", <<>>))

\* the try block and its handler, on the outcome of expression->simplify()
SolveSimplified(simplifiedOutcome, solved) ==
    IF simplifiedOutcome.st = "unknown" THEN Undecided
    ELSE IF simplifiedOutcome.st = "err"
    THEN Failed(RethrownAs("Equation solving failed: ", simplifiedOutcome.err))
    ELSE IF solved.st = "err"
    THEN Failed(RethrownAs("Equation solving failed: ", solved.err))
    ELSE solved

\* SymbolicEngine::solve(variable)
SymbolicEngineSolve(variable) ==
    /\ pc' = "solved"
    /\ \E simplifiedOutcome \in {SymbolicSimplify(expression)} :
           solution' = IF expression = Null
                       THEN Failed(Error("No expression to solve", <<>>))
                       ELSE SolveSimplified(simplifiedOutcome,
                                            SolveTree(simplifiedOutcome.node))
    /\ UNCHANGED <<text, lexer, ast, lastError, hasParsingError, parseReturn, hadTree, escaped,
                   currentToken, exprDone, bindings, evalResult, printed, reparsed,
                   expression, derivative, simplified, shown, integral,
                   factors, again>>

\* solution->simplify()
SolutionSimplify ==
    /\ pc' = "simplified"
    /\ simplified' = SymbolicSimplify(solution.node)
    /\ UNCHANGED <<text, lexer, ast, lastError, hasParsingError, parseReturn, hadTree, escaped,
                   currentToken, exprDone, bindings, evalResult, printed, reparsed,
                   expression, derivative, shown, integral, solution,
                   factors, again>>

\* one text is parsed and solved, by x and by y; the solution is simplified
\* and shown
NextSolve ==
    \/ pc = "init" /\ SymbolicEngineParseFromString(text)
    \/ pc = "converted" /\ \E variable \in {<<"x">>, <<"y">>} : SymbolicEngineSolve(variable)
    \/ pc = "solved" /\ solution.st = "ok" /\ SolutionSimplify
    \/ pc = "simplified" /\ simplified.st = "ok" /\ SimplifiedToString

MaxSolveLexemes == 3

SolveLexemes == {<<"x">>, <<"y">>, <<"2">>, <<"3">>, <<"0">>, <<"*">>, <<"/">>}

SolveRightOperands == {<<"x">>, <<"y">>, <<"1">>, <<"3">>, <<"2", "*", "x">>}

\* a text of the lexemes, alone and as the left side of a sum or difference
SolveInputs ==
    TextsOver(SolveLexemes, MaxSolveLexemes)
    \cup {a \o op \o b : a \in TextsOver(SolveLexemes, MaxSolveLexemes),
                         op \in {<<"+">>, <<"-">>}, b \in SolveRightOperands}

InitSolve == Constructed /\ text \in SolveInputs

SpecSolve == InitSolve /\ [][NextSolve]_vars

\* a*x with a literal a other than 0, or x alone
IsMultipleOfX(e) ==
    \/ IsVariableX(e)
    \/ /\ e.k = "SymbolicBinaryOp"
       /\ e.op = "MULTIPLY"
       /\ e.kids[1].k = "SymbolicNumber"
       /\ e.kids[1].value # Num(0)
       /\ IsVariableX(e.kids[2])

\* a*x + b or a*x - b with literals a and b, a other than 0
IsLinearInX(e) ==
    /\ e.k = "SymbolicBinaryOp"
    /\ e.op \in {"ADD", "SUBTRACT"}
    /\ IsMultipleOfX(e.kids[1])
    /\ e.kids[2].k = "SymbolicNumber"

SlopeOf(e) == IF IsVariableX(e.kids[1]) THEN Num(1) ELSE e.kids[1].kids[1].value

\* the root of a*x + b is -b/a, that of a*x - b is b/a
RootOf(e) ==
    IF e.op = "ADD"
    THEN QDiv(QSub(Num(0), e.kids[2].value), SlopeOf(e))
    ELSE QDiv(e.kids[2].value, SlopeOf(e))

\* C18: for a*x + b and a*x - b with a literal a other than 0, solve by x
\* succeeds, its result simplifies to the constant root, and the expression
\* evaluates to 0 at that root.
LinearEquationsAreSolved ==
    pc = "solved" /\ IsLinearInX(expression) =>
        /\ solution.st = "ok"
        /\ SymbolicSimplify(solution.node) = Built(SymbolicNumber(RootOf(expression)))
        /\ SymbolicEvaluate(expression, <<"x">> :> RootOf(expression)) = Returned(Num(0))

\* C19: solve succeeds exactly when the simplified expression is a sum or
\* difference with a variable-free left side: for c + f it returns (-c)/f,
\* for c - f it returns c/f; on every other simplified tree, and when
\* simplification fails, it fails with an "Equation solving failed" error;
\* the variable asked for plays no part.
SolveAnswers(simplifiedOutcome) ==
    IF simplifiedOutcome.st = "err"
    THEN Failed(RethrownAs("Equation solving failed: ", simplifiedOutcome.err))
    ELSE IF /\ simplifiedOutcome.node.k = "SymbolicBinaryOp"
            /\ simplifiedOutcome.node.op = "ADD"
            /\ isConstant(simplifiedOutcome.node.kids[1])
    THEN Built(SymbolicBinaryOp("DIVIDE",
                   SymbolicUnaryOp("NEGATIVE", simplifiedOutcome.node.kids[1]),
                   simplifiedOutcome.node.kids[2]))
    ELSE IF /\ simplifiedOutcome.node.k = "SymbolicBinaryOp"
            /\ simplifiedOutcome.node.op = "SUBTRACT"
            /\ isConstant(simplifiedOutcome.node.kids[1])
    THEN Built(SymbolicBinaryOp("DIVIDE", simplifiedOutcome.node.kids[1],
                                simplifiedOutcome.node.kids[2]))
    ELSE Failed(Error("Equation solving failed: Complex equation solving not implemented",
                      <<>>))

ComparesFactorTexts(e) ==
    /\ e.k = "SymbolicBinaryOp"
    /\ e.op = "ADD"
    /\ e.kids[1].k = "SymbolicBinaryOp"
    /\ e.kids[1].op = "POWER"

\* leftPower->left, leftPower->right and binaryOp->right, in the order compared
ComparedFactorOperands(e) == <<e.kids[1].kids[1], e.kids[1].kids[2], e.kids[2]>>

\* x and x + 1, as factor builds them
FactorsOfSquarePlusX ==
    <<SymbolicVariable(<<"x">>),
      SymbolicBinaryOp("ADD", SymbolicVariable(<<"x">>), SymbolicNumber(Num(1)))>>

\* the try block with no factoring at all: always the simplified tree alone
FactorTreeUnfactored(e, texts) == Built(<<e>>)

\* the sum branch: the texts are compared with "x", "2" and "x", left to right
FactorSum(e, texts) ==
    CASE OperandIs(texts[1], <<"x">>) = "unknown" -> Undecided
      [] OperandIs(texts[1], <<"x">>) = "no" -> Built(<<e>>)
      [] OTHER ->
         (CASE OperandIs(texts[2], <<"2">>) = "unknown" -> Undecided
            [] OperandIs(texts[2], <<"2">>) = "no" -> Built(<<e>>)
            [] OTHER ->
               (CASE OperandIs(texts[3], <<"x">>) = "unknown" -> Undecided
                  [] OperandIs(texts[3], <<"x">>) = "no" -> Built(<<e>>)
                  [] OTHER -> Built(FactorsOfSquarePlusX)))

\* the body of the try block of SymbolicEngine::factor on the simplified tree
FactorTree(e, texts) ==
    IF e.k = "SymbolicBinaryOp" /\ e.op = "MULTIPLY"
    THEN Built(<<e.kids[1], e.kids[2]>>)
    ELSE IF ComparesFactorTexts(e) THEN FactorSum(e, texts)
    ELSE Built(<<e>>)

\* the try/catch of SymbolicEngine::factor around simplify and the try block
FactorSimplified(simplifiedOutcome, texts) ==
    IF simplifiedOutcome.st = "unknown" THEN Undecided
    ELSE IF simplifiedOutcome.st = "err"
    THEN Failed(RethrownAs("Factoring failed: ", simplifiedOutcome.err))
    ELSE FactorTree(simplifiedOutcome.node, texts)

FactorTexts(simplifiedOutcome) ==
    IF simplifiedOutcome.st = "ok" /\ ComparesFactorTexts(simplifiedOutcome.node)
    THEN [i \in 1..3 |->
             SymbolicToString(ComparedFactorOperands(simplifiedOutcome.node)[i])]
    ELSE <<>>

\* SymbolicEngine::factor
SymbolicEngineFactor ==
    /\ pc' = "factored"
    /\ \E simplifiedOutcome \in {SymbolicSimplify(expression)} :
         \E texts \in {FactorTexts(simplifiedOutcome)} :
           factors' = IF expression = Null
                      THEN Failed(Error("No expression to factor", <<>>))
                      ELSE FactorSimplified(simplifiedOutcome, texts)
    /\ UNCHANGED <<text, lexer, ast, lastError, hasParsingError, parseReturn, hadTree, escaped,
                   currentToken, exprDone, bindings, evalResult, printed, reparsed,
                   expression, derivative, simplified, shown, integral,
                   solution, again>>

\* the factor texts with " * " between them, as the factoring test prints them
RECURSIVE JoinFactors(_)
JoinFactors(texts) ==
    IF Len(texts) = 0 THEN <<>>
    ELSE IF Len(texts) = 1 THEN texts[1]
    ELSE texts[1] \o <<" ", "*", " ">> \o JoinFactors(Tail(texts))

\* the printing loop over the factors
FactorsToString ==
    /\ pc' = "shown"
    /\ shown' = JoinFactors([i \in 1..Len(factors.node) |->
                                SymbolicToString(factors.node[i])])
    /\ UNCHANGED <<text, lexer, ast, lastError, hasParsingError, parseReturn, hadTree, escaped,
                   currentToken, exprDone, bindings, evalResult, printed, reparsed,
                   expression, derivative, simplified, integral, solution,
                   factors, again>>

\* one text is parsed and factored, and the factors are printed
NextFactor ==
    \/ pc = "init" /\ SymbolicEngineParseFromString(text)
    \/ pc = "converted" /\ SymbolicEngineFactor
    \/ pc = "factored" /\ factors.st = "ok" /\ FactorsToString

MaxFactorLexemes == 3

FactorLexemes ==
    {<<"x">>, <<"y">>, <<"2">>, <<"0">>, <<"1">>, <<"*">>, <<"/">>, <<"^">>}

FactorRightOperands == {<<"x">>, <<"y">>, <<"1">>, <<"x", "*", "1">>}

\* a text of the lexemes, alone and as the left side of a sum
FactorInputs ==
    TextsOver(FactorLexemes, MaxFactorLexemes)
    \cup {a \o <<"+">> \o b : a \in TextsOver(FactorLexemes, MaxFactorLexemes),
                             b \in FactorRightOperands}

InitFactor == Constructed /\ text \in FactorInputs

SpecFactor == InitFactor /\ [][NextFactor]_vars

IsSquarePlusX(e) ==
    /\ ComparesFactorTexts(e)
    /\ e.kids[1].kids[1] = SymbolicVariable(<<"x">>)
    /\ e.kids[1].kids[2] = SymbolicNumber(Num(2))
    /\ e.kids[2] = SymbolicVariable(<<"x">>)

IsProduct(e) == e.k = "SymbolicBinaryOp" /\ e.op = "MULTIPLY"

\* the two factors of a product or of x^2 + x
TwoFactors(e) ==
    IF IsProduct(e) THEN Built(<<e.kids[1], e.kids[2]>>) ELSE Built(FactorsOfSquarePlusX)

RECURSIVE Allocated(_, _)
Allocated(e, at) ==
    [k |-> e.k, op |-> e.op, name |-> e.name, value |-> e.value,
     kids |-> [i \in 1..Len(e.kids) |-> Allocated(e.kids[i], at \o <<i>>)],
     at |-> at]

\* parseFromString as SymbolicEngineParseFromStringOutcome, the converted
\* tree being the one the engine owns from then on
SymbolicEngineParseFromStringOwned(r) ==
    /\ IF r.ok
       THEN /\ expression' = Allocated(convertASTToSymbolic(r.node), <<>>)
            /\ pc' = "converted"
       ELSE /\ expression' = expression
            /\ pc' = "rejected"
    /\ derivative' = NotBuilt
    /\ simplified' = NotBuilt
    /\ shown' = <<>>
    /\ integral' = NotBuilt
    /\ solution' = NotBuilt
    /\ factors' = NotBuilt
    /\ again' = NotBuilt
    /\ UNCHANGED <<text, lexer, ast, lastError, hasParsingError, parseReturn, hadTree, escaped,
                   currentToken, exprDone, bindings, evalResult, printed, reparsed>>

\* the methods of the engine that leave its expression alone
EngineCalls ==
    {"differentiate", "integrate", "simplify", "solve", "factor", "evaluate", "toString"}

\* the step a call leaves the scenario in
CalledStep(call) ==
    CASE call = "differentiate" -> "differentiated"
      [] call = "integrate" -> "integrated"
      [] call = "simplify" -> "simplified"
      [] call = "solve" -> "solved"
      [] call = "factor" -> "factored"
      [] call = "evaluate" -> "evaluated"
      [] call = "toString" -> "shown"

\* the operands whose texts factor() compares, and the expression itself
\* for toString()
PrintedByCall(simplifiedOutcome) ==
    IF simplifiedOutcome.st = "ok" /\ ComparesFactorTexts(simplifiedOutcome.node)
    THEN ComparedFactorOperands(simplifiedOutcome.node) \o <<expression>>
    ELSE <<expression, expression, expression, expression>>

\* one call of differentiate("x"), integrate("x"), simplify(), solve("x"),
\* factor(), evaluate(variables) or toString() on an engine that holds an
\* expression; expression->simplify() and the texts are computed once for
\* the calls that use them
SymbolicEngineCall(call, variables, order) ==
    /\ expression # Null
    /\ pc' = CalledStep(call)
    /\ \E simplifiedOutcome \in {SymbolicSimplify(expression)} :
         \E texts \in {[i \in 1..4 |->
                          SymbolicToString(PrintedByCall(simplifiedOutcome)[i])]} :
           /\ derivative' = IF call = "differentiate"
                            THEN SymbolicDifferentiate(expression, <<"x">>)
                            ELSE derivative
           /\ integral' = IF call = "integrate"
                          THEN SymbolicIntegrate(expression, <<"x">>, order)
                          ELSE integral
           /\ simplified' = IF call = "simplify" THEN simplifiedOutcome ELSE simplified
           /\ solution' = IF call = "solve"
                          THEN SolveSimplified(simplifiedOutcome,
                                               SolveTree(simplifiedOutcome.node))
                          ELSE solution
           /\ factors' = IF call = "factor"
                         THEN FactorSimplified(simplifiedOutcome, SubSeq(texts, 1, 3))
                         ELSE factors
           /\ evalResult' = IF call = "evaluate"
                            THEN SymbolicEvaluate(expression, variables)
                            ELSE evalResult
           /\ bindings' = IF call = "evaluate" THEN variables ELSE bindings
           /\ shown' = IF call = "toString" THEN texts[4] ELSE shown
    /\ UNCHANGED <<text, lexer, ast, lastError, hasParsingError, parseReturn, hadTree, escaped,
                   currentToken, exprDone, printed, reparsed, expression, again>>

\* the call has returned or thrown and the caller goes on to its next call;
\* after a crash there is no caller left
CallerGoesOn ==
    /\ pc \in {"differentiated", "integrated", "simplified", "solved", "factored",
               "evaluated", "shown"}
    /\ ~(pc = "integrated" /\ integral.st = "crash")
    /\ pc' = "converted"
    /\ UNCHANGED <<text, lexer, ast, lastError, hasParsingError, parseReturn, hadTree, escaped,
                   currentToken, exprDone, bindings, evalResult, printed, reparsed,
                   expression, derivative, simplified, shown, integral, solution,
                   factors, again>>

\* one text is parsed, and the engine's calls are made on it in any order,
\* any number of times
NextOwned ==
    \/ pc = "init" /\ SymbolicEngineParseFromStringOwned(ParserParse(text, NewParser(text)))
    \/ /\ pc = "converted"
       /\ \E call \in EngineCalls, order \in ArgumentOrders :
              SymbolicEngineCall(call, <<"x">> :> Num(3), order)
    \/ CallerGoesOn

MaxOwnedLexemes == 1

OwnedLexemes == {<<"x">>, <<"y">>, <<"2">>, <<"0">>}

OwnedOperators == {<<"+">>, <<"*">>, <<"/">>, <<"^">>}

OwnedRightOperands == {<<"x">>, <<"2">>, <<"0">>}

OwnedFunctions == {Chars("sin"), Chars("ln"), Chars("sqrt")}

\* an operand of the lexemes, alone, as the left side of an operation and
\* as the argument of a call
OwnedInputs(len) ==
    LET operands == TextsOver(OwnedLexemes, len) \ {<<>>}
    IN  operands
        \cup {a \o op \o b : a \in operands, op \in OwnedOperators, b \in OwnedRightOperands}
        \cup {f \o <<"(">> \o a \o <<")">> : f \in OwnedFunctions, a \in operands}

InitOwned == Constructed /\ text \in OwnedInputs(MaxOwnedLexemes)

SpecOwned == InitOwned /\ [][NextOwned]_vars

\* the tree parseFromString stored for the text
StoredFor(input) ==
    Allocated(convertASTToSymbolic(ParserParse(input, NewParser(input)).node), <<>>)

\* some node of the tree is a node of the stored expression
RECURSIVE SharesNode(_)
SharesNode(e) ==
    \/ "at" \in DOMAIN e
    \/ \E i \in 1..Len(e.kids) : SharesNode(e.kids[i])

\* the trees the calls made so far have returned
ReturnedTrees ==
    {o.node : o \in {o \in {derivative, integral, simplified, solution} : o.st = "ok"}}
    \cup (IF factors.st = "ok" THEN {factors.node[i] : i \in 1..Len(factors.node)} ELSE {})

\* C21: after any sequence of differentiate, integrate, simplify, solve,
\* factor, evaluate and toString calls, whether they returned or threw, the
\* stored expression is the tree that was parsed, node for node, and no
\* returned tree holds a node of it.
StoredExpressionIsUntouched ==
    pc \notin {"init", "rejected"} =>
        /\ expression = StoredFor(text)
        /\ \A tree \in ReturnedTrees : ~SharesNode(tree)

\* a product has been differentiated, integrated, simplified, factored,
\* evaluated and shown, and solve has thrown on it
StoredExpressionIsUntouchedWitness ==
    /\ pc = "converted"
    /\ expression.op = "MULTIPLY"
    /\ derivative.st = "ok"
    /\ integral.st = "ok"
    /\ simplified.st = "ok"
    /\ factors.st = "ok"
    /\ evalResult.st = "ok"
    /\ shown # <<>>
    /\ solution.st = "err"

(***************************************************************************)
(* The lexer on its own: getNextToken() and reset() called on a Lexer      *)
(* constructed on `text`.  lexer.returned are the tokens returned since    *)
(* the construction or the last reset(), lexer.first the longest such run  *)
(* that a reset() ended, lexer.resets the number of reset() calls.         *)
(***************************************************************************)
MaxEndCalls == 2

MaxResets == 1

EndsReturned == Cardinality({i \in 1..Len(lexer.returned) :
                                lexer.returned[i].type = "END_OF_FILE"})

\* Lexer::getNextToken() as a step of the lexer
LexerGetNextToken ==
    /\ EndsReturned <= MaxEndCalls
    /\ \E r \in {getNextToken(text, lexer.position)} :
           lexer' = [lexer EXCEPT !.position = r.position,
                                  !.returned = Append(@, r.token)]
    /\ UNCHANGED <<text, pc, ast, lastError, hasParsingError, parseReturn, hadTree,
                   escaped, currentToken, exprDone, bindings, evalResult, printed,
                   reparsed, expression, derivative, simplified, shown, integral,
                   solution, factors, again>>

\* Lexer::reset()
LexerReset ==
    /\ lexer.resets < MaxResets
    /\ lexer' = [position |-> 0,
                 returned |-> <<>>,
                 first |-> IF Len(lexer.returned) > Len(lexer.first)
                           THEN lexer.returned ELSE lexer.first,
                 resets |-> lexer.resets + 1]
    /\ UNCHANGED <<text, pc, ast, lastError, hasParsingError, parseReturn, hadTree,
                   escaped, currentToken, exprDone, bindings, evalResult, printed,
                   reparsed, expression, derivative, simplified, shown, integral,
                   solution, factors, again>>

NextLexer == LexerGetNextToken \/ LexerReset

MaxLexerLexemes == 3

LexerLexemes ==
    {<<"1">>, <<"2">>, <<".">>, <<"e">>, <<"E">>, <<"+">>, <<"-">>, <<" ">>, <<"x">>,
     <<"(">>, <<"#">>}

LexerExamples ==
    {<<"1", ".", "5", "e", "+", "3">>,
     <<"1", ".", "2", ".", "3">>,
     <<"1", "e", "5", "e", "3">>,
     <<"1", "2", ".", "5", "E", "-", "2", "x">>,
     <<"1", "e", "+", "-", "2">>,
     <<".", ".", "1">>,
     <<"s", "i", "n", "(", "x", "_", "1", ")", " ">>,
     <<" ", " ", "2", " ", "e", "2", " ">>}

LexerInputs(len) == LexerExamples \cup TextsOver(LexerLexemes, len)

InitLexer == Constructed /\ text \in LexerInputs(MaxLexerLexemes)

SpecLexer == InitLexer /\ [][NextLexer]_vars

\* C22: once getNextToken has returned End, every later call returns End at
\* the same offset, until reset(); after reset() the tokens returned are,
\* kind, text and offset, those of the scan before it.
EndIsTerminal ==
    /\ \A i \in 1..Len(lexer.returned) : \A j \in i..Len(lexer.returned) :
           lexer.returned[i].type = "END_OF_FILE" => lexer.returned[j] = lexer.returned[i]
    /\ \A i \in 1..Len(lexer.returned) :
           i <= Len(lexer.first) => lexer.returned[i] = lexer.first[i]

\* after a reset the lexer has returned the tokens of the first scan again,
\* two of them before End, and End more than once
EndIsTerminalWitness ==
    /\ lexer.resets > 0
    /\ lexer.returned = lexer.first
    /\ Len(lexer.returned) >= 4
    /\ lexer.returned[3].type = "END_OF_FILE"
    /\ lexer.returned[4].type = "END_OF_FILE"

(***************************************************************************)
(* Number tokens.  IsNumberText is the form of a Number token: digits with *)
(* at most one '.', then optionally e or E, an optional sign and digits.   *)
(***************************************************************************)
IsDigits(s) == \A i \in 1..Len(s) : isdigit(s[i])

IsMantissa(s) ==
    \E d \in 0..Len(s) :
        /\ IsDigits(SubSeq(s, 1, d))
        /\ \/ d = Len(s)
           \/ s[d + 1] = "." /\ IsDigits(SubSeq(s, d + 2, Len(s)))

IsExponent(s) ==
    \/ s = <<>>
    \/ /\ s[1] \in {"e", "E"}
       /\ \/ IsDigits(Tail(s))
          \/ Len(s) >= 2 /\ s[2] \in {"+", "-"} /\ IsDigits(SubSeq(s, 3, Len(s)))

IsNumberText(s) ==
    \E m \in 0..Len(s) :
        IsMantissa(SubSeq(s, 1, m)) /\ IsExponent(SubSeq(s, m + 1, Len(s)))

NumberTokensReturned ==
    {lexer.returned[i] : i \in {j \in 1..Len(lexer.returned) :
                                    lexer.returned[j].type = "NUMBER"}}

\* the parser's state when token is its lookahead: the lexer stands behind it
ParserAt(token) ==
    [position |-> token.position + Len(token.value), currentToken |-> token]

\* a Number token is the longest prefix at its offset that has the form of
\* a number, and its text is the substring consumed
NumberTokenIsLongestMatch ==
    \A token \in NumberTokensReturned :
        /\ token.value # <<>>
        /\ token.value = substr(text, token.position, Len(token.value))
        /\ IsNumberText(token.value)
        /\ \A n \in (Len(token.value) + 1)..(Len(text) - token.position) :
               ~IsNumberText(substr(text, token.position, n))

\* Parser::parsePrimary turns a Number token into a NumberNode
NumberTokenIsConverted ==
    \A token \in NumberTokensReturned :
        /\ parsePrimary(text, ParserAt(token)).ok
        /\ parsePrimary(text, ParserAt(token)).node.k = "Number"

\* the Number tokens without a digit in front of the exponent, and those
\* whose value no double holds, are the ones std::stod rejects
NumberTokenWithDigitIsConverted ==
    \A token \in NumberTokensReturned :
        (isdigit(token.value[1]) \/ (Len(token.value) >= 2 /\ isdigit(token.value[2])))
            => /\ parsePrimary(text, ParserAt(token)).ok
               /\ parsePrimary(text, ParserAt(token)).node.k = "Number"

\* C23: every Number token is the longest prefix at the cursor of the form
\* digits with at most one '.', optional e/E, optional sign, digits; its
\* text is the substring consumed; and the parser converts it to a number.
NumberTokens == NumberTokenIsLongestMatch /\ NumberTokenIsConverted

(***************************************************************************)
(* toString of products of constants.                                      *)
(***************************************************************************)
\* the nodes of a tree
RECURSIVE SubExpressions(_)
SubExpressions(e) ==
    {e} \cup UNION {SubExpressions(e.kids[i]) : i \in 1..Len(e.kids)}

\* the products in e both operands of which hold no variable
ConstantProducts(e) ==
    {m \in SubExpressions(e) :
        /\ m.k = "SymbolicBinaryOp" /\ m.op = "MULTIPLY"
        /\ isConstant(m.kids[1]) /\ isConstant(m.kids[2])}

HasChar(s, c) == \E i \in 1..Len(s) : s[i] = c

\* the text of one number, a sign in front allowed
IsSingleNumber(s) ==
    /\ ~HasChar(s, "*")
    /\ LET digits == IF s # <<>> /\ s[1] = "-" THEN Tail(s) ELSE s
       IN  digits # <<>> /\ IsNumberText(digits)

PrintsFolded(e) ==
    \A m \in ConstantProducts(e) :
        ~HasChar(SymbolicToString(m), "?") => IsSingleNumber(SymbolicToString(m))

\* C24: toString of a product whose two operands are both variable-free is
\* the numeric product as one number without '*', in the tree as parsed and
\* in the simplified tree.
ConstantProductsPrintFolded ==
    /\ pc = "converted" => PrintsFolded(expression)
    /\ pc = "simplified" /\ simplified.st = "ok" => PrintsFolded(simplified.node)

\* the same of products of two number literals
LiteralProducts(e) ==
    {m \in ConstantProducts(e) :
        m.kids[1].k = "SymbolicNumber" /\ m.kids[2].k = "SymbolicNumber"}

LiteralProductsPrintFolded ==
    pc = "converted" =>
        \A m \in LiteralProducts(expression) :
            ~HasChar(SymbolicToString(m), "?") => IsSingleNumber(SymbolicToString(m))

(***************************************************************************)
(* isZero(), isOne() and isConstant() on the nodes of the stored tree.     *)
(***************************************************************************)
IsLiteral(e, v) == e.k = "SymbolicNumber" /\ e.value = Num(v)

\* isZero() and isOne() are true of the literals 0 and 1 and of them alone
ZeroAndOneAreLiterals(e) ==
    \A m \in SubExpressions(e) :
        Comparable(m) => /\ isZero(m) <=> IsLiteral(m, 0)
                         /\ isOne(m) <=> IsLiteral(m, 1)

\* isConstant() is true of the subtrees without a Variable node
ConstantMeansNoVariable(e) ==
    \A m \in SubExpressions(e) :
        isConstant(m) <=> ~\E v \in SubExpressions(m) : v.k = "SymbolicVariable"

\* C25: isZero() is true exactly of a Number node of value 0, isOne()
\* exactly of a Number node of value 1, both false of every other kind of
\* node; isConstant() is true exactly when the subtree holds no Variable.
PredicatesAreLiteralChecks ==
    pc = "converted" =>
        ZeroAndOneAreLiterals(expression) /\ ConstantMeansNoVariable(expression)

ConstantIsVariableFree == pc = "converted" => ConstantMeansNoVariable(expression)

(***************************************************************************)
(* The conversion of the parser's tree into the engine's, and evaluate()   *)
(* of the two trees under the same bindings.                               *)
(***************************************************************************)
\* SymbolicEngine::parseFromString, the tree of its parser kept in ast
SymbolicEngineParseAndConvert(r) ==
    /\ pc' = IF r.ok THEN "converted" ELSE "rejected"
    /\ ast' = r.node
    /\ expression' = IF r.ok THEN convertASTToSymbolic(r.node) ELSE expression
    /\ UNCHANGED <<text, lexer, lastError, hasParsingError, parseReturn, hadTree, escaped,
                   currentToken, exprDone, bindings, evalResult, printed, reparsed,
                   derivative, simplified, shown, integral, solution, factors, again>>

\* SymbolicEngine::evaluate(variables)
SymbolicEngineEvaluate(variables) ==
    /\ pc' = "evaluated"
    /\ bindings' = variables
    /\ evalResult' = IF expression = Null
                     THEN Threw(Error("No expression to evaluate", <<>>))
                     ELSE SymbolicEvaluate(expression, variables)
    /\ UNCHANGED <<text, lexer, ast, lastError, hasParsingError, parseReturn, hadTree, escaped,
                   currentToken, exprDone, printed, reparsed, expression,
                   derivative, simplified, shown, integral, solution, factors, again>>

ConvertBindings ==
    {<<>>, <<"x">> :> Num(3), <<"x">> :> Num(0) @@ <<"y">> :> Num(-2)}

NextConvert ==
    \/ pc = "init" /\ SymbolicEngineParseAndConvert(ParserParse(text, NewParser(text)))
    \/ pc = "converted" /\ \E variables \in ConvertBindings : SymbolicEngineEvaluate(variables)

MaxConvertLexemes == 3

ConvertLexemes ==
    {<<"0">>, <<"2">>, <<"x">>, <<"y">>, <<"-">>, <<"/">>, <<"*">>, <<"^">>, <<"+">>,
     <<"s", "q", "r", "t", "(">>, <<"l", "n", "(">>, <<")">>, <<",">>}

ConvertExamples ==
    {<<"s","q","r","t","(","x",")","-","y","/","2">>,
     <<"u","n","k","n","o","w","n","(","5",")">>,
     <<"(","x","-","2",")","^","2","*","y">>}

ConvertInputs(len) == ConvertExamples \cup TextsOver(ConvertLexemes, len)

InitConvert == Constructed /\ text \in ConvertInputs(MaxConvertLexemes)

SpecConvert == InitConvert /\ [][NextConvert]_vars

\* the class of the engine's tree that stands for a class of the parser's
SymbolicKind(k) ==
    CASE k = "Number" -> "SymbolicNumber"
      [] k = "Variable" -> "SymbolicVariable"
      [] k = "BinaryOp" -> "SymbolicBinaryOp"
      [] k = "UnaryOp" -> "SymbolicUnaryOp"
      [] k = "Function" -> "SymbolicFunction"
      [] OTHER -> "none"

\* e is node by node the tree `node`: same kind, operator, name and value,
\* the children in the same order
RECURSIVE SameShape(_, _)
SameShape(node, e) ==
    /\ e.k = SymbolicKind(node.k)
    /\ e.op = node.op
    /\ e.name = node.name
    /\ node.k = "Number" => e.value = node.value
    /\ Len(e.kids) = Len(node.kids)
    /\ \A i \in 1..Len(node.kids) : SameShape(node.kids[i], e.kids[i])

\* both return the same number, or both throw the same error
SameOutcome(a, b) ==
    a.st # "unknown" /\ b.st # "unknown" =>
        /\ a.st = b.st
        /\ a.st = "ok" /\ IsTracked(a.val) /\ IsTracked(b.val) => a.val = b.val
        /\ a.st = "err" => a.err = b.err

\* C26: the converted tree has, node by node, the kind, operator and
\* children of the parser's tree, and its evaluate returns the number the
\* parser's tree evaluates to, or fails with the same error.
ConversionPreservesTree ==
    /\ pc \in {"converted", "evaluated"} => SameShape(ast, expression)
    /\ pc = "evaluated" => SameOutcome(ASTEvaluate(ast, bindings), evalResult)

\* sqrt(x)-y/2 was converted and evaluated under x = 0, y = -2
ConversionPreservesTreeWitness ==
    /\ pc = "evaluated"
    /\ text = <<"s","q","r","t","(","x",")","-","y","/","2">>
    /\ expression.k = "SymbolicBinaryOp"
    /\ expression.kids[1].k = "SymbolicFunction"
    /\ bindings = (<<"x">> :> Num(0) @@ <<"y">> :> Num(-2))
    /\ evalResult = Returned(Num(1))

(***************************************************************************)
(* The unary prefixes + and -.                                             *)
(***************************************************************************)
\* one text is parsed and evaluated at x = 3
NextUnary ==
    \/ pc = "init" /\ ExpressionParserParse(text)
    \/ pc = "parsed" /\ parseReturn /\ ExpressionParserEvaluate(<<"x">> :> Num(3))

MaxUnaryLexemes == 4

UnaryLexemes ==
    {<<"2">>, <<"x">>, <<"+">>, <<"-">>, <<"*">>, <<"/">>, <<"^">>, <<"(">>, <<")">>}

UnaryExamples ==
    {<<"-", "x", "^", "2">>,
     <<"-", "2", "x">>,
     <<"2", "^", "-", "3">>,
     <<"-", "(", "x", "+", "2", ")", "^", "2">>,
     <<"2", " ", "-", "-", "x", "^", "2", "x">>}

UnaryInputs(len) == UnaryExamples \cup TextsOver(UnaryLexemes, len)

InitUnary == Constructed /\ text \in UnaryInputs(MaxUnaryLexemes)

SpecUnary == InitUnary /\ [][NextUnary]_vars

IsSign(node) == node.k = "UnaryOp" /\ node.op \in {"POSITIVE", "NEGATIVE"}

\* the tree the text was parsed into, once it has been
ParsedAs(input, node) == text = input /\ pc # "init" => parseReturn /\ ast = node

\* C27: a prefix + or - applies to the primary that follows it alone and
\* binds tighter than every binary operator, ^ and juxtaposition among
\* them: without parentheses its operand is a number, a variable or a signed
\* primary; -x^2 is (-x)^2, 9 at x = 3, -2x is (-2)*x and 2^-3 is 2^(-3).
SignsBindTightest ==
    /\ pc # "init" /\ parseReturn /\ ~HasChar(text, "(") =>
           \A m \in SubExpressions(ast) :
               IsSign(m) => m.kids[1].k \in {"Number", "Variable"} \/ IsSign(m.kids[1])
    /\ ParsedAs(<<"-", "x", "^", "2">>,
                BinaryOpNode("POWER", UnaryOpNode("NEGATIVE", VariableNode(<<"x">>)),
                             NumberNode(Num(2))))
    /\ text = <<"-", "x", "^", "2">> /\ pc = "evaluated" => evalResult = Returned(Num(9))
    /\ ParsedAs(<<"-", "2", "x">>,
                BinaryOpNode("MULTIPLY", UnaryOpNode("NEGATIVE", NumberNode(Num(2))),
                             VariableNode(<<"x">>)))
    /\ ParsedAs(<<"2", "^", "-", "3">>,
                BinaryOpNode("POWER", NumberNode(Num(2)),
                             UnaryOpNode("NEGATIVE", NumberNode(Num(3)))))
    /\ ParsedAs(<<"-", "(", "x", "+", "2", ")", "^", "2">>,
                BinaryOpNode("POWER",
                    UnaryOpNode("NEGATIVE",
                        BinaryOpNode("ADD", VariableNode(<<"x">>), NumberNode(Num(2)))),
                    NumberNode(Num(2))))

\* -x^2 was parsed and evaluated at x = 3
SignsBindTightestWitness ==
    /\ pc = "evaluated"
    /\ text = <<"-", "x", "^", "2">>
    /\ IsSign(ast.kids[1])
    /\ evalResult = Returned(Num(9))

(***************************************************************************)
(* An engine that is handed one text after another, and null trees, and is *)
(* asked for toString, evaluate and differentiate in between.              *)
(***************************************************************************)
\* "No expression"
NoExpressionText ==
    <<"N", "o", " ", "e", "x", "p", "r", "e", "s", "s", "i", "o", "n">>

\* SymbolicEngine::parseFromAST(ast): the expression the engine holds when
\* the call has returned
parseFromAST(node) ==
    IF node = Null THEN expression ELSE convertASTToSymbolic(node)

\* the results the caller holds are of the calls made since the last parse
CallerStartsOver ==
    /\ shown' = <<>>
    /\ evalResult' = NotRun
    /\ derivative' = NotBuilt
    /\ UNCHANGED <<lexer, ast, lastError, hasParsingError, parseReturn, hadTree, escaped,
                   currentToken, exprDone, bindings, printed, reparsed,
                   simplified, integral, solution, factors, again>>

\* a parseFromString that drops the stored expression when the parse fails
SymbolicEngineParseFromStringResets(expressionStr, r) ==
    /\ text' = expressionStr
    /\ pc' = IF r.ok THEN "converted" ELSE "rejected"
    /\ expression' = IF r.ok THEN parseFromAST(r.node) ELSE Null
    /\ CallerStartsOver

\* SymbolicEngine::parseFromString(expressionStr), r being the outcome of
\* parser.parse
SymbolicEngineParseFromStringNext(expressionStr, r) ==
    /\ text' = expressionStr
    /\ pc' = IF r.ok THEN "converted" ELSE "rejected"
    /\ expression' = IF r.ok THEN parseFromAST(r.node) ELSE expression
    /\ CallerStartsOver

\* SymbolicEngine::parseFromAST(nullptr)
SymbolicEngineParseFromASTNull ==
    /\ pc' = "rejected"
    /\ expression' = parseFromAST(Null)
    /\ text' = text
    /\ CallerStartsOver

\* toString(), evaluate({x: 3}) and differentiate("x") of the engine
SymbolicEngineAnswers ==
    /\ pc' = "answered"
    /\ shown' = IF expression = Null THEN NoExpressionText
                ELSE SymbolicToString(expression)
    /\ evalResult' = IF expression = Null
                     THEN Threw(Error("No expression to evaluate", <<>>))
                     ELSE SymbolicEvaluate(expression, <<"x">> :> Num(3))
    /\ derivative' = IF expression = Null
                     THEN Failed(Error("No expression to differentiate", <<>>))
                     ELSE SymbolicDifferentiate(expression, <<"x">>)
    /\ UNCHANGED <<text, lexer, ast, lastError, hasParsingError, parseReturn, hadTree, escaped,
                   currentToken, exprDone, bindings, printed, reparsed, expression,
                   simplified, integral, solution, factors, again>>

MaxReparseLexemes == 2

ReparseLexemes == {<<"x">>, <<"2">>, <<"+">>, <<"*">>, <<"(">>}

ReparseInputs(len) == TextsOver(ReparseLexemes, len) \cup {<<"s", "i", "n", "(", "x", ")">>}

NextReparse ==
    \/ /\ pc \in {"init", "answered"}
       /\ \E expressionStr \in ReparseInputs(MaxReparseLexemes) :
              SymbolicEngineParseFromStringNext(
                  expressionStr, ParserParse(expressionStr, NewParser(expressionStr)))
    \/ pc \in {"init", "answered"} /\ SymbolicEngineParseFromASTNull
    \/ pc \in {"converted", "rejected"} /\ SymbolicEngineAnswers

InitReparse == Constructed /\ text = <<>>

SpecReparse == InitReparse /\ [][NextReparse]_vars

\* the tree parseFromString stores for a text that parses
StoredOf(input) == convertASTToSymbolic(ParserParse(input, NewParser(input)).node)

\* C28: a parseFromString that fails, and a parseFromAST of null, leave the
\* stored expression as it was, so that an engine that held one keeps it
\* and answers for it and a fresh engine stays without one; a call that
\* succeeds replaces the stored expression by the new one.
FailedParseKeepsExpression ==
    [][/\ pc' = "rejected" => expression' = expression
       /\ pc' = "converted" => expression' = StoredOf(text')
       /\ pc' = "answered" =>
              /\ expression' = expression
              /\ (expression # Null) => /\ shown' = SymbolicToString(expression)
                                        /\ evalResult'.st # "err"
                                             \/ evalResult'.err.msg # "No expression to evaluate"
              /\ (expression = Null) => shown' = NoExpressionText]_vars

\* the engine holds 2x and answers for it after "2+" was rejected
FailedParseKeepsExpressionWitness ==
    /\ pc = "answered"
    /\ text = <<"2", "+">>
    /\ expression = StoredOf(<<"2", "x">>)
    /\ shown = <<"2", "x">>
    /\ evalResult = Returned(Num(6))

(***************************************************************************)
(* The value of a simplified tree.                                         *)
(***************************************************************************)
ValueBindings ==
    {<<"x">> :> Num(0) @@ <<"y">> :> Num(2), <<"x">> :> Num(3) @@ <<"y">> :> Num(-1)}

\* e evaluates under the bindings to a number the model tracks
EvaluatesTo(e, variables) ==
    /\ SymbolicEvaluate(e, variables).st = "ok"
    /\ IsTracked(SymbolicEvaluate(e, variables).val)

\* where the expression evaluates, simplify has succeeded
SimplifySucceedsWhereDefined ==
    pc = "simplified" =>
        \A variables \in ValueBindings :
            EvaluatesTo(expression, variables) => simplified.st # "err"

\* where the expression evaluates, the simplified tree evaluates to the
\* same number
SimplifyKeepsValue ==
    pc = "simplified" /\ simplified.st = "ok" =>
        \A variables \in ValueBindings :
            EvaluatesTo(expression, variables) /\
            SymbolicEvaluate(simplified.node, variables).st # "unknown"
                => /\ SymbolicEvaluate(simplified.node, variables).st = "ok"
                   /\ IsTracked(SymbolicEvaluate(simplified.node, variables).val)
                          => SymbolicEvaluate(simplified.node, variables).val
                               = SymbolicEvaluate(expression, variables).val

\* C29: under bindings where e evaluates without error, simplify(e)
\* succeeds and evaluates to the same number as e; x*0 -> 0, 0/x -> 0,
\* x^0 -> 1, 0^x -> 0 and 1^x -> 1 are applied only where the value stays.
SimplifyPreservesValue == SimplifySucceedsWhereDefined /\ SimplifyKeepsValue

(***************************************************************************)
(* Progress of the lexer and of the parser.  The lexer is stepped through  *)
(* the text token by token; where it stands, the parse functions are       *)
(* called on a parser whose lookahead is the token just returned.          *)
(***************************************************************************)
\* the text is scanned token by token, and parsed
NextProgress ==
    \/ LexerGetNextToken
    \/ pc = "init" /\ ExpressionParserParse(text)

ProgressExamples ==
    {<<"2", "x">>,
     <<"s", "i", "n", "(", "x", ")", "2", "(", "x", "+", "1", ")">>,
     <<"2", " ", "x", " ", "y", "^", "2", "^", "x">>,
     <<"l", "n", "(", "x", ",", "2", ")", "*", "-", "x">>,
     <<"(", "(", "x", ")", ")", ")", "2">>}

ProgressInputs(len) == ProgressExamples \cup LexerInputs(len)

InitProgress == Constructed /\ text \in ProgressInputs(MaxLexerLexemes)

SpecProgress == InitProgress /\ [][NextProgress]_vars

LastReturned == lexer.returned[Len(lexer.returned)]

\* the parser whose lookahead is the token the lexer returned last
ParserHere == [position |-> lexer.position, currentToken |-> LastReturned]

\* a call that returned has moved the lookahead on, within the input
Consumed(st, r) ==
    r.ok => /\ r.st.currentToken.position > st.currentToken.position
            /\ r.st.position >= st.position
            /\ r.st.position <= Len(text)

\* every token but End holds at least one character of the input, starts
\* where the token before it ended or later, and ends within the input
LexerAdvances ==
    /\ lexer.position <= Len(text)
    /\ \A i \in 1..Len(lexer.returned) :
           LET token == lexer.returned[i]
           IN  /\ token.position + Len(token.value) <= Len(text)
               /\ token.type # "END_OF_FILE" => token.value # <<>>
               /\ i > 1 => token.position >= lexer.returned[i - 1].position
                                               + Len(lexer.returned[i - 1].value)
               /\ i = Len(lexer.returned) =>
                      lexer.position >= token.position + Len(token.value)
               /\ i = Len(lexer.returned) /\ token.type # "END_OF_FILE" =>
                      lexer.position = token.position + Len(token.value)

\* the calls of the parser consume at least one token when they return:
\* the operand after an operator, the right operand of a juxtaposition,
\* which starts at the lookahead itself, and a function call
ParserCallsConsume ==
    lexer.returned # <<>> =>
        /\ Consumed(ParserHere, parsePrimary(text, ParserHere))
        /\ Consumed(ParserHere, parsePower(text, ParserHere))
        /\ Consumed(ParserHere, parseFactor(text, ParserHere))
        /\ Consumed(ParserHere, parseTerm(text, ParserHere))
        /\ LastReturned.type = "FUNCTION" =>
               Consumed(ParserHere, parseFunction(text, ParserHere))
        /\ LastReturned.type # "END_OF_FILE" =>
               advance(text, ParserHere).currentToken.position > LastReturned.position

\* parse has ended in a tree or in an error
ParseEnds ==
    pc = "parsed" =>
        \/ parseReturn /\ ast # Null /\ ~hasParsingError
        \/ ~parseReturn /\ ast = Null /\ hasParsingError /\ lastError # NoError

\* C30: every getNextToken call advances the cursor or returns End, the
\* cursor stays within the input, every call of term, factor, power,
\* primary and function that returns has consumed a token, the right
\* operand of a juxtaposition included, and parse ends in a tree or an error.
ParsingTerminates == LexerAdvances /\ ParserCallsConsume /\ ParseEnds

\* "2x" was parsed into a product, and the lexer has returned the x, the
\* juxtaposed operand that parsePower is called on without an advance
ParsingTerminatesWitness ==
    /\ pc = "parsed"
    /\ parseReturn
    /\ text = <<"2", "x">>
    /\ ast.k = "BinaryOp"
    /\ Len(lexer.returned) = 2
    /\ LastReturned.type = "VARIABLE"
    /\ parsePower(text, ParserHere).ok
    /\ parsePower(text, ParserHere).st.currentToken.type = "END_OF_FILE"

====
